---- MODULE Spec2Model ----
(***************************************************************************)
(* Model of the HDRP orchestrator's DAG execution engine:                  *)
(*   - the graph state machine (dag/transitions.go),                       *)
(*   - the batch scheduler (dag/scheduler.go),                             *)
(*   - the driver loop DAGExecutor.Execute and the per-node worker         *)
(*     DAGExecutor.executeNodeAsync with its retry loop,                   *)
(*   - the retry subsystem: error classification, circuit breaker,         *)
(*     checkpoints and retry metrics.                                      *)
(*                                                                         *)
(* Node IDs are natural numbers; their order stands for the lexicographic  *)
(* order of the ID strings.  Relevance scores are tenths (10 = 1.0).       *)
(* Errors are represented by their kind (see ClassifyError).               *)
(***************************************************************************)
EXTENDS Integers, Sequences, FiniteSets, TLC

(***************************************************************************)
(* Bounds of the exploration                                               *)
(***************************************************************************)
\* largest RetryPolicy.MaxAttempts an Execute run is explored with
MaxRetryBound == 2
\* largest worker pool size an Execute run is explored with
MaxWorkersBound == 2
\* largest batch size asked of the scheduler called directly
MaxBatchBound == 3
\* the most WAL entries a client of the storage writes
MaxWALBound == 5
\* the clock is followed for this many half open-timeouts
MaxTicksBound == 4
\* requests let through as probes and not yet recorded: at most this many
MaxProbesBound == 4
\* requests recorded by a breaker that is not Closed: at most this many
MaxRecordedBound == 26
\* workers that hold the lock of one node at a time: at most this many
MaxHoldersBound == 2

(***************************************************************************)
(* Program constants                                                       *)
(***************************************************************************)
\* Graph.Validate: const MaxDepth = 3
MaxDepth == 3
\* NewCircuitBreaker: minRequests
minRequests == 10
\* NewCircuitBreaker: halfOpenMaxTests
halfOpenMaxTests == 3
\* NewCircuitBreaker: openTimeout, in seconds
openTimeout == 30
\* LoadConfig: LockTimeout, in seconds
LockTimeout == 30
\* NewCircuitBreaker: failureThreshold 0.5, kept as the fraction 1/2
failureThresholdNum == 1
failureThresholdDen == 2
\* LoadConfig: rate limits per node type
ResearcherRateLimit == 5
CriticRateLimit == 3
SynthesizerRateLimit == 2

(***************************************************************************)
(* dag.Status                                                              *)
(***************************************************************************)
StatusCreated == "CREATED"
StatusPending == "PENDING"
StatusRunning == "RUNNING"
StatusBlocked == "BLOCKED"
StatusSucceeded == "SUCCEEDED"
StatusFailed == "FAILED"
StatusRetrying == "RETRYING"
StatusCancelled == "CANCELLED"

Status ==
  {StatusCreated, StatusPending, StatusRunning, StatusBlocked,
   StatusSucceeded, StatusFailed, StatusRetrying, StatusCancelled}

(***************************************************************************)
(* Sequence helpers                                                        *)
(***************************************************************************)
Range(s) == {s[i] : i \in 1..Len(s)}

Min(a, b) == IF a < b THEN a ELSE b

(***************************************************************************)
(* dag.Node, dag.Edge, dag.Graph                                           *)
(***************************************************************************)
\* Config is the set of the keys of the configuration; ConfigEntity is the
\* value under the key "entity", the empty text when the key is absent
Node(id, type, config, relevance) ==
  [ID |-> id, Type |-> type, Config |-> config, ConfigEntity |-> <<>>,
   Status |-> StatusCreated, RelevanceScore |-> relevance, Depth |-> 0,
   RetryCount |-> 0, LastError |-> ""]

Edge(from, to) == [From |-> from, To |-> to]

\* Metadata holds the one key the engine reads, "goal"; hasGoal tells
\* whether the key is present
NoMetadata == [hasGoal |-> FALSE, goal |-> <<>>]

Graph(nodes, edges) ==
  [Nodes |-> nodes, Edges |-> edges, Status |-> StatusCreated,
   Metadata |-> NoMetadata]

\* The graphs submitted to the engine.  Every one is freshly built: all
\* nodes and the graph itself are CREATED.
GraphCatalog ==
  << \* 1: a single researcher
     Graph(<<Node(1, "researcher", {"query"}, 10)>>, <<>>),
     \* 2: two independent researchers (siblings)
     Graph(<<Node(1, "researcher", {"query"}, 10),
             Node(2, "researcher", {"query"}, 10)>>, <<>>),
     \* 3: the chain researcher -> critic -> synthesizer
     Graph(<<Node(1, "researcher", {"query"}, 10),
             Node(2, "critic", {"task"}, 9),
             Node(3, "synthesizer", {}, 8)>>,
           <<Edge(1, 2), Edge(2, 3)>>),
     \* 4: a parent with one child, listed child first, and a sibling
     Graph(<<Node(2, "critic", {"task"}, 10),
             Node(1, "researcher", {"query"}, 5),
             Node(3, "researcher", {"query"}, 5)>>,
           <<Edge(1, 2)>>),
     \* 5: two researchers feeding one synthesizer
     Graph(<<Node(1, "researcher", {"query"}, 10),
             Node(2, "researcher", {"query"}, 10),
             Node(3, "synthesizer", {"query"}, 10)>>,
           <<Edge(1, 3), Edge(2, 3)>>),
     \* 6: a cyclic graph, rejected by Validate
     Graph(<<Node(1, "researcher", {"query"}, 10),
             Node(2, "critic", {"task"}, 10)>>,
           <<Edge(1, 2), Edge(2, 1)>>),
     \* 7: a single node of a type executeNode has no handler for
     Graph(<<Node(1, "agent", {"query"}, 10)>>, <<>>)
  >>

NodeIDs(g) == {g.Nodes[i].ID : i \in 1..Len(g.Nodes)}

\* every node ID of the catalog
AllNodeIDs == UNION {NodeIDs(GraphCatalog[k]) : k \in 1..Len(GraphCatalog)}

NodeTypes == {"researcher", "critic", "synthesizer", "agent"}

\* index of the first node with this ID, 0 when there is none (findNode and
\* the loop of SetNodeStatus stop at the first match)
NodeIndex(g, id) ==
  IF \E i \in 1..Len(g.Nodes) : g.Nodes[i].ID = id
  THEN CHOOSE i \in 1..Len(g.Nodes) :
         /\ g.Nodes[i].ID = id
         /\ \A j \in 1..(i - 1) : g.Nodes[j].ID # id
  ELSE 0

findNode(g, id) == g.Nodes[NodeIndex(g, id)]

\* parents of a node: sources of the edges into it
Parents(g, id) ==
  {g.Edges[i].From : i \in {j \in 1..Len(g.Edges) : g.Edges[j].To = id}}

\* nodes reachable from a node by one or more edges
RECURSIVE ReachFrom(_, _, _)
ReachFrom(g, frontier, seen) ==
  LET next == {g.Edges[i].To :
                 i \in {j \in 1..Len(g.Edges) : g.Edges[j].From \in frontier}}
      new == next \ seen
  IN IF new = {} THEN seen ELSE ReachFrom(g, new, seen \cup new)

Descendants(g, id) == ReachFrom(g, {id}, {})

(***************************************************************************)
(* Graph.Validate (dag/graph.go)                                           *)
(***************************************************************************)
forbiddenKeys == {"steps", "tasks", "pipeline", "subgraph", "batch"}

\* Node.Validate: the configuration carries no composite key
NodeValidate(n) == n.Config \cap forbiddenKeys = {}

\* adjacency list built by Validate: only edges between existing nodes
Adj(g, id) ==
  {g.Edges[i].To :
     i \in {j \in 1..Len(g.Edges) :
              /\ g.Edges[j].From = id
              /\ g.Edges[j].From \in NodeIDs(g)
              /\ g.Edges[j].To \in NodeIDs(g)}}

\* checkCycles: some node lies on a cycle
checkCycles(g) == \E id \in NodeIDs(g) : id \in Descendants(g, id)

\* getDepth of checkDepth: number of nodes on the longest path from id
RECURSIVE getDepth(_, _)
getDepth(g, id) ==
  LET ds == {getDepth(g, c) : c \in Adj(g, id)}
  IN 1 + (IF ds = {} THEN 0 ELSE CHOOSE d \in ds : \A e \in ds : e <= d)

\* a depth check that lets one more layer pass
checkDepth_OneMoreLayer(g, limit) ==
  \E id \in NodeIDs(g) : getDepth(g, id) > limit + 1

checkDepth(g, limit) == \E id \in NodeIDs(g) : getDepth(g, id) > limit

\* Validate: "nil" when the graph is accepted, else the kind of the error.
\* The ID 0 and the type "" stand for the empty string.
Validate(g) ==
  IF Len(g.Nodes) = 0 THEN "empty"
  ELSE IF \/ \E i \in 1..Len(g.Nodes) :
                \/ g.Nodes[i].ID = 0
                \/ g.Nodes[i].Type = ""
                \/ ~NodeValidate(g.Nodes[i])
                \/ \E j \in 1..(i - 1) : g.Nodes[j].ID = g.Nodes[i].ID
          \/ \E i \in 1..Len(g.Edges) :
                \/ g.Edges[i].From \notin (NodeIDs(g) \ {0})
                \/ g.Edges[i].To \notin (NodeIDs(g) \ {0})
                \/ g.Edges[i].From = g.Edges[i].To
       THEN "validation"
  ELSE IF checkCycles(g) THEN "cycle"
  ELSE IF checkDepth(g, MaxDepth) THEN "depth"
  ELSE "nil"

(***************************************************************************)
(* The state machine (dag/transitions.go)                                  *)
(***************************************************************************)
\* a transition relation that lets a failed node run again at once
isValidTransition_FailedRuns(current, target) ==
  \/ current = target
  \/ current = StatusCreated
       /\ target \in {StatusPending, StatusRunning, StatusCancelled,
                      StatusBlocked}
  \/ current = StatusBlocked /\ target \in {StatusPending, StatusCancelled}
  \/ current = StatusPending
       /\ target \in {StatusRunning, StatusCancelled, StatusFailed}
  \/ current = StatusRunning
       /\ target \in {StatusSucceeded, StatusFailed, StatusCancelled,
                      StatusRetrying}
  \/ current = StatusFailed
       /\ target \in {StatusRunning, StatusRetrying, StatusCancelled}
  \/ current = StatusRetrying
       /\ target \in {StatusRunning, StatusFailed, StatusCancelled}
  \/ current = StatusCancelled /\ target = StatusCreated

\* isValidTransition: the permitted edges; a status may always be set to
\* itself
isValidTransition(current, target) ==
  IF current = target THEN TRUE
  ELSE CASE current = StatusCreated ->
              target \in {StatusPending, StatusRunning, StatusCancelled,
                          StatusBlocked}
         [] current = StatusBlocked ->
              target \in {StatusPending, StatusCancelled}
         [] current = StatusPending ->
              target \in {StatusRunning, StatusCancelled, StatusFailed}
         [] current = StatusRunning ->
              target \in {StatusSucceeded, StatusFailed, StatusCancelled,
                          StatusRetrying}
         [] current = StatusFailed ->
              target \in {StatusRetrying, StatusCancelled}
         [] current = StatusRetrying ->
              target \in {StatusRunning, StatusFailed, StatusCancelled}
         [] current = StatusCancelled -> target = StatusCreated
         [] current = StatusSucceeded -> FALSE
         [] OTHER -> FALSE

\* Graph.SetStatus: the graph and the error ("nil" on success)
SetStatus(g, s) ==
  IF ~isValidTransition(g.Status, s)
  THEN [graph |-> g, err |-> "invalid_transition"]
  ELSE [graph |-> [g EXCEPT !.Status = s], err |-> "nil"]

\* Graph.SetNodeStatus: the graph and the error ("nil" on success)
SetNodeStatus(g, nodeID, s) ==
  LET i == NodeIndex(g, nodeID)
  IN IF i = 0 THEN [graph |-> g, err |-> "not_found"]
     ELSE IF ~isValidTransition(g.Nodes[i].Status, s)
          THEN [graph |-> g, err |-> "invalid_transition"]
          ELSE [graph |-> [g EXCEPT !.Nodes[i].Status = s], err |-> "nil"]

\* the nodeStatus map EvaluateReadiness builds first: the status of the
\* last node with this ID, "" for an ID that no node has
StatusSnapshot(g, id) ==
  IF id \in NodeIDs(g)
  THEN g.Nodes[CHOOSE i \in 1..Len(g.Nodes) :
                 /\ g.Nodes[i].ID = id
                 /\ \A j \in (i + 1)..Len(g.Nodes) : g.Nodes[j].ID # id].Status
  ELSE ""

\* a readiness rule that takes a failed parent for a finished one
ReadinessTarget_FailedCounts(g0, id) ==
  IF \A p \in Parents(g0, id) :
       StatusSnapshot(g0, p) \in {StatusSucceeded, StatusFailed}
  THEN StatusPending
  ELSE StatusBlocked

\* a readiness rule that is content with one succeeded parent
ReadinessTarget_AnyParent(g0, id) ==
  IF \/ Parents(g0, id) = {}
     \/ \E p \in Parents(g0, id) : StatusSnapshot(g0, p) = StatusSucceeded
  THEN StatusPending
  ELSE StatusBlocked

\* a readiness rule that also accepts a parent that is still being retried
ReadinessTarget_RetryingCounts(g0, id) ==
  IF \A p \in Parents(g0, id) :
       StatusSnapshot(g0, p) \in {StatusSucceeded, StatusRetrying}
  THEN StatusPending
  ELSE StatusBlocked

\* a readiness rule that is content with a parent that is only PENDING
ReadinessTarget_PendingCounts(g0, id) ==
  IF \A p \in Parents(g0, id) :
       StatusSnapshot(g0, p) \in {StatusSucceeded, StatusPending}
  THEN StatusPending
  ELSE StatusBlocked

\* the target EvaluateReadiness computes for a CREATED or BLOCKED node from
\* the statuses its parents had when the call started
ReadinessTarget(g0, id) ==
  IF \A p \in Parents(g0, id) : StatusSnapshot(g0, p) = StatusSucceeded
  THEN StatusPending
  ELSE StatusBlocked

\* the sweep of EvaluateReadiness over the nodes i..Len, g0 being the graph
\* at the start of the call; it stops at the first failed update (r is the
\* outcome of the update of node i)
RECURSIVE EvaluateFrom(_, _, _)
EvaluateFrom(g, g0, i) ==
  IF i > Len(g.Nodes) THEN [graph |-> g, err |-> "nil"]
  ELSE LET n == g.Nodes[i]
       IN IF n.Status # StatusCreated /\ n.Status # StatusBlocked
          THEN EvaluateFrom(g, g0, i + 1)
          ELSE LET target == ReadinessTarget(g0, n.ID)
               IN IF n.Status = target THEN EvaluateFrom(g, g0, i + 1)
                  ELSE CHOOSE out \in
                         {IF r.err # "nil" THEN r
                          ELSE EvaluateFrom(r.graph, g0, i + 1) :
                            r \in {SetNodeStatus(g, n.ID, target)}} : TRUE

EvaluateReadiness(g) == EvaluateFrom(g, g, 1)

(***************************************************************************)
(* The scheduler (dag/scheduler.go)                                        *)
(***************************************************************************)
\* a comparison that breaks ties by the larger ID
SchedLess_LargerIDFirst(a, b) ==
  IF a.RelevanceScore # b.RelevanceScore
  THEN a.RelevanceScore > b.RelevanceScore
  ELSE a.ID > b.ID

\* the comparison of sort.Slice: higher relevance first, then smaller ID
SchedLess(a, b) ==
  IF a.RelevanceScore # b.RelevanceScore
  THEN a.RelevanceScore > b.RelevanceScore
  ELSE a.ID < b.ID

\* the candidates (indices of PENDING nodes) in scheduling order
RECURSIVE SortCandidates(_, _)
SortCandidates(g, idx) ==
  IF idx = {} THEN <<>>
  ELSE LET best == CHOOSE i \in idx :
                     \A j \in idx \ {i} : ~SchedLess(g.Nodes[j], g.Nodes[i])
       IN <<best>> \o SortCandidates(g, idx \ {best})

\* the transition loop of ScheduleNextBatch over selected[k..]; on a failed
\* transition the nodes already moved are set back to PENDING
RECURSIVE TransitionBatch(_, _, _, _)
TransitionBatch(g, selected, k, transitioned) ==
  IF k > Len(selected)
  THEN [graph |-> g, batch |-> transitioned, err |-> "nil"]
  ELSE LET RECURSIVE Rollback(_, _)
           Rollback(h, m) ==
             IF m > Len(transitioned) THEN h
             ELSE Rollback(
                    SetNodeStatus(h, transitioned[m], StatusPending).graph,
                    m + 1)
       IN CHOOSE out \in
            {IF r.err # "nil"
             THEN [graph |-> Rollback(g, 1), batch |-> <<>>, err |-> r.err]
             ELSE TransitionBatch(r.graph, selected, k + 1,
                                  Append(transitioned, selected[k])) :
               r \in {SetNodeStatus(g, selected[k], StatusRunning)}} : TRUE

\* a scheduler that takes every PENDING node, whatever the limit
ScheduleNextBatch_IgnoreLimit(g, maxNodes) ==
  LET cand == SortCandidates(
                g, {i \in 1..Len(g.Nodes) : g.Nodes[i].Status = StatusPending})
      selected == [k \in 1..Len(cand) |-> g.Nodes[cand[k]].ID]
  IN IF Len(cand) = 0 THEN [graph |-> g, batch |-> <<>>, err |-> "nil"]
     ELSE TransitionBatch(g, selected, 1, <<>>)

\* Graph.ScheduleNextBatch: the graph, the IDs of the scheduled nodes in
\* order, and the error
ScheduleNextBatch(g, maxNodes) ==
  LET maxN == IF maxNodes <= 0 THEN 1 ELSE maxNodes
      cand == SortCandidates(
                g, {i \in 1..Len(g.Nodes) : g.Nodes[i].Status = StatusPending})
      selectCount == Min(maxN, Len(cand))
      selected == [k \in 1..selectCount |-> g.Nodes[cand[k]].ID]
  IN IF Len(cand) = 0 THEN [graph |-> g, batch |-> <<>>, err |-> "nil"]
     ELSE TransitionBatch(g, selected, 1, <<>>)

\* Graph.GetReadyNodesCount
GetReadyNodesCount(g) ==
  Cardinality({i \in 1..Len(g.Nodes) : g.Nodes[i].Status = StatusPending})

(***************************************************************************)
(* Error classification (retry.ClassifyError)                              *)
(***************************************************************************)
ErrorTypeTransient == "Transient"
ErrorTypePermanent == "Permanent"

\* outcomes of a remote call: success, or the error it returns
RPCErrors == {"deadline_exceeded", "invalid_argument", "canceled"}

\* a classification that takes every error for a transient one
ClassifyError_AllTransient(err) == ErrorTypeTransient

\* ClassifyError on the errors a node execution ends with:
\*   deadline_exceeded  context.DeadlineExceeded          (errors.Is)
\*   canceled           context.Canceled                  (errors.Is)
\*   invalid_argument   gRPC status InvalidArgument       (classifyGRPCStatus)
\*   missing_config     "... node missing 'query' in config": pattern "missing"
\*   unknown_type       "unknown node type: agent": no pattern, the default
\*   parent_incomplete  "parent node X not completed successfully": default
ClassifyError(err) ==
  CASE err = "deadline_exceeded" -> ErrorTypeTransient
    [] err = "canceled" -> ErrorTypePermanent
    [] err = "invalid_argument" -> ErrorTypePermanent
    [] err = "missing_config" -> ErrorTypePermanent
    [] err = "unknown_type" -> ErrorTypeTransient
    [] err = "parent_incomplete" -> ErrorTypeTransient
    [] OTHER -> ErrorTypeTransient

IsRetryable(err) == ClassifyError(err) = ErrorTypeTransient

(***************************************************************************)
(* Circuit breaker (retry/circuit_breaker.go)                              *)
(***************************************************************************)
CircuitClosed == "Closed"
CircuitOpen == "Open"
CircuitHalfOpen == "HalfOpen"

NewCircuitBreaker ==
  [state |-> CircuitClosed, failures |-> 0, successes |-> 0,
   consecutiveSuccesses |-> 0, openedAt |-> 0]

\* CircuitBreaker.GetStats
GetStats(cb) ==
  [failures |-> cb.failures, successes |-> cb.successes, state |-> cb.state]

\* CircuitBreaker.reset
reset(cb) ==
  [cb EXCEPT !.failures = 0, !.successes = 0, !.consecutiveSuccesses = 0]

\* time.Since(cb.openedAt) >= cb.openTimeout at the time t
TimeoutElapsed(cb, t) == t - cb.openedAt >= openTimeout

\* CircuitBreaker.ShouldAllow; elapsed: openTimeout has passed since openedAt
ShouldAllow(cb, elapsed) ==
  CASE cb.state = CircuitClosed -> [cb |-> cb, allow |-> TRUE]
    [] cb.state = CircuitOpen ->
         IF elapsed
         THEN [cb |-> [cb EXCEPT !.state = CircuitHalfOpen,
                                 !.consecutiveSuccesses = 0],
               allow |-> TRUE]
         ELSE [cb |-> cb, allow |-> FALSE]
    [] cb.state = CircuitHalfOpen ->
         [cb |-> cb, allow |-> cb.consecutiveSuccesses < halfOpenMaxTests]
    [] OTHER -> [cb |-> cb, allow |-> FALSE]

\* RecordSuccess that closes a HalfOpen breaker and keeps its counters
RecordSuccess_NoResetOnClose(cb) ==
  LET c1 == [cb EXCEPT !.successes = @ + 1]
  IN CASE c1.state = CircuitHalfOpen ->
            LET c2 == [c1 EXCEPT !.consecutiveSuccesses = @ + 1]
            IN IF c2.consecutiveSuccesses >= halfOpenMaxTests
               THEN [c2 EXCEPT !.state = CircuitClosed]
               ELSE c2
       [] c1.state = CircuitClosed ->
            IF c1.failures + c1.successes >= minRequests * 2
            THEN reset(c1) ELSE c1
       [] OTHER -> c1

\* CircuitBreaker.RecordSuccess
RecordSuccess(cb) ==
  LET c1 == [cb EXCEPT !.successes = @ + 1]
  IN CASE c1.state = CircuitHalfOpen ->
            LET c2 == [c1 EXCEPT !.consecutiveSuccesses = @ + 1]
            IN IF c2.consecutiveSuccesses >= halfOpenMaxTests
               THEN reset([c2 EXCEPT !.state = CircuitClosed])
               ELSE c2
       [] c1.state = CircuitClosed ->
            IF c1.failures + c1.successes >= minRequests * 2
            THEN reset(c1) ELSE c1
       [] OTHER -> c1

\* CircuitBreaker.RecordFailure at the time t
RecordFailure(cb, t) ==
  LET c1 == [cb EXCEPT !.failures = @ + 1]
  IN CASE c1.state = CircuitHalfOpen ->
            [c1 EXCEPT !.state = CircuitOpen, !.openedAt = t,
                       !.consecutiveSuccesses = 0]
       [] c1.state = CircuitClosed ->
            IF /\ c1.failures + c1.successes >= minRequests
               /\ c1.failures * failureThresholdDen
                    >= failureThresholdNum * (c1.failures + c1.successes)
            THEN [c1 EXCEPT !.state = CircuitOpen, !.openedAt = t]
            ELSE c1
       [] OTHER -> c1

(***************************************************************************)
(* Retry metrics (retry/metrics.go)                                        *)
(***************************************************************************)
NewNodeMetrics ==
  [TotalAttempts |-> 0, SuccessCount |-> 0, FailureCount |-> 0,
   TransientErrors |-> 0, PermanentErrors |-> 0, CircuitBreakerHits |-> 0]

MetricsRecordAttempt(m) == [m EXCEPT !.TotalAttempts = @ + 1]

MetricsRecordSuccess(m) == [m EXCEPT !.SuccessCount = @ + 1]

MetricsRecordFailure(m, errorType) ==
  [m EXCEPT !.FailureCount = @ + 1,
            !.TransientErrors =
               IF errorType = ErrorTypeTransient THEN @ + 1 ELSE @,
            !.PermanentErrors =
               IF errorType = ErrorTypePermanent THEN @ + 1 ELSE @]

MetricsRecordCircuitBreakerHit(m) == [m EXCEPT !.CircuitBreakerHits = @ + 1]

(***************************************************************************)
(* Executor helpers (executor: executeNode, extractFinalResult, Execute)   *)
(***************************************************************************)
NoResult == [NodeID |-> 0, Success |-> FALSE, Data |-> "nil", Error |-> "nil"]

NodeResult(id, success, data, error) ==
  [NodeID |-> id, Success |-> success, Data |-> data, Error |-> error]

\* the first parent, in edge order, whose result is missing or failed; 0 when
\* every parent has a successful result (loop of executeCritic and
\* executeSynthesizer)
FirstIncompleteParent(g, id, results) ==
  LET bad == {i \in 1..Len(g.Edges) :
                /\ g.Edges[i].To = id
                /\ \/ g.Edges[i].From \notin DOMAIN results
                   \/ ~results[g.Edges[i].From].Success}
  IN IF bad = {} THEN 0 ELSE CHOOSE i \in bad : \A j \in bad : i <= j

\* executeNode reaches the remote call of the node's service
RPCInvoked(node, g, results) ==
  CASE node.Type = "researcher" -> "query" \in node.Config
    [] node.Type = "critic" ->
         "task" \in node.Config /\ FirstIncompleteParent(g, node.ID, results) = 0
    [] node.Type = "synthesizer" ->
         FirstIncompleteParent(g, node.ID, results) = 0
    [] OTHER -> FALSE

\* executeNode: the dispatch on the node type; rpc is the outcome of the
\* remote call, "ok" or the error it returns
executeNode(node, g, results, rpc) ==
  CASE node.Type = "researcher" ->
         IF "query" \notin node.Config
         THEN NodeResult(node.ID, FALSE, "nil", "missing_config")
         ELSE IF rpc # "ok" THEN NodeResult(node.ID, FALSE, "nil", rpc)
         ELSE NodeResult(node.ID, TRUE, "claims", "nil")
    [] node.Type = "critic" ->
         IF "task" \notin node.Config
         THEN NodeResult(node.ID, FALSE, "nil", "missing_config")
         ELSE IF FirstIncompleteParent(g, node.ID, results) # 0
         THEN NodeResult(node.ID, FALSE, "nil", "parent_incomplete")
         ELSE IF rpc # "ok" THEN NodeResult(node.ID, FALSE, "nil", rpc)
         ELSE NodeResult(node.ID, TRUE, "critiques", "nil")
    [] node.Type = "synthesizer" ->
         IF FirstIncompleteParent(g, node.ID, results) # 0
         THEN NodeResult(node.ID, FALSE, "nil", "parent_incomplete")
         ELSE IF rpc # "ok" THEN NodeResult(node.ID, FALSE, "nil", rpc)
         ELSE NodeResult(node.ID, TRUE, "report", "nil")
    [] OTHER -> NodeResult(node.ID, FALSE, "nil", "unknown_type")

\* what Execute returns: kind "result" (an ExecutionResult), kind "error"
\* (the error return), kind "none" while Execute is running
ExecutionResult(success, partial, succeeded, failed, report, msg) ==
  [kind |-> "result", Success |-> success, PartialSuccess |-> partial,
   SucceededNodes |-> succeeded, FailedNodes |-> failed,
   FinalReport |-> report, ErrorMessage |-> msg]

ExecutionError(err) ==
  [kind |-> "error", Success |-> FALSE, PartialSuccess |-> FALSE,
   SucceededNodes |-> <<>>, FailedNodes |-> <<>>,
   FinalReport |-> "", ErrorMessage |-> err]

NotReturned ==
  [kind |-> "none", Success |-> FALSE, PartialSuccess |-> FALSE,
   SucceededNodes |-> <<>>, FailedNodes |-> <<>>,
   FinalReport |-> "", ErrorMessage |-> ""]

DeadlockMessage == "Execution deadlocked: nodes are blocked"

\* extractFinalResult: the report of the first SUCCEEDED synthesizer node
\* that has a successful result
extractFinalResult(g, results) ==
  IF \E i \in 1..Len(g.Nodes) :
       /\ g.Nodes[i].Type = "synthesizer"
       /\ g.Nodes[i].Status = StatusSucceeded
       /\ g.Nodes[i].ID \in DOMAIN results
       /\ results[g.Nodes[i].ID].Success
       /\ results[g.Nodes[i].ID].Data = "report"
  THEN ExecutionResult(TRUE, FALSE, <<>>, <<>>, "report", "")
  ELSE ExecutionResult(FALSE, FALSE, <<>>, <<>>, "",
                       "No synthesizer output found")

\* the IDs of the nodes with one of the statuses, in node order
RECURSIVE NodesWithStatus(_, _, _)
NodesWithStatus(g, st, i) ==
  IF i > Len(g.Nodes) THEN <<>>
  ELSE (IF g.Nodes[i].Status = st THEN <<g.Nodes[i].ID>> ELSE <<>>)
         \o NodesWithStatus(g, st, i + 1)

\* the failedNodes map: nodeID -> LastError of the FAILED nodes
FailedMap(g) ==
  [id \in Range(NodesWithStatus(g, StatusFailed, 1)) |->
     g.Nodes[CHOOSE i \in 1..Len(g.Nodes) :
               /\ g.Nodes[i].ID = id
               /\ g.Nodes[i].Status = StatusFailed
               /\ \A j \in (i + 1)..Len(g.Nodes) :
                    ~(g.Nodes[j].ID = id /\ g.Nodes[j].Status = StatusFailed)
            ].LastError]

\* a termination block without the partial-success branch
TerminationResult_NoPartial(g, results) ==
  LET allDone == \A i \in 1..Len(g.Nodes) :
                   g.Nodes[i].Status \notin
                     {StatusPending, StatusRunning, StatusBlocked,
                      StatusRetrying}
      succeededNodes == NodesWithStatus(g, StatusSucceeded, 1)
      failedNodes == FailedMap(g)
      anyFailed == \E i \in 1..Len(g.Nodes) : g.Nodes[i].Status = StatusFailed
      extracted == extractFinalResult(g, results)
  IN IF ~allDone
     THEN ExecutionResult(FALSE, FALSE, <<>>, <<>>, "", DeadlockMessage)
     ELSE IF anyFailed
     THEN ExecutionResult(FALSE, FALSE, succeededNodes, failedNodes, "",
                          "All critical nodes failed")
     ELSE [extracted EXCEPT !.SucceededNodes = succeededNodes]

\* the termination block of Execute, entered when nothing is in flight and
\* nothing is PENDING: the result it returns
TerminationResult(g, results) ==
  LET allDone == \A i \in 1..Len(g.Nodes) :
                   g.Nodes[i].Status \notin
                     {StatusPending, StatusRunning, StatusBlocked,
                      StatusRetrying}
      succeededNodes == NodesWithStatus(g, StatusSucceeded, 1)
      failedNodes == FailedMap(g)
      anyFailed == \E i \in 1..Len(g.Nodes) : g.Nodes[i].Status = StatusFailed
      extracted == extractFinalResult(g, results)
  IN IF ~allDone
     THEN ExecutionResult(FALSE, FALSE, <<>>, <<>>, "", DeadlockMessage)
     ELSE IF anyFailed
     THEN IF Len(succeededNodes) > 0
          THEN [extracted EXCEPT !.PartialSuccess = TRUE, !.Success = FALSE,
                                 !.SucceededNodes = succeededNodes,
                                 !.FailedNodes = failedNodes,
                                 !.ErrorMessage = "nodes failed, nodes succeeded"]
          ELSE ExecutionResult(FALSE, FALSE, succeededNodes, failedNodes, "",
                               "All critical nodes failed")
     ELSE [extracted EXCEPT !.SucceededNodes = succeededNodes]

(***************************************************************************)
(* The store (storage/storage.go, storage/schema.go): the tables of the    *)
(* one graph ID in use and the next sequence number of that graph          *)
(***************************************************************************)
MutationCreateGraph == "CREATE_GRAPH"
MutationUpdateGraphStatus == "UPDATE_GRAPH_STATUS"
MutationAddNode == "ADD_NODE"
MutationUpdateNodeStatus == "UPDATE_NODE_STATUS"
MutationAddEdge == "ADD_EDGE"

\* storage.GraphState and storage.NodeState built from the graph in memory
GraphState(g) == [Status |-> g.Status, Metadata |-> g.Metadata]

NodeState(n) ==
  [NodeID |-> n.ID, Type |-> n.Type, Config |-> n.Config,
   ConfigEntity |-> n.ConfigEntity, Status |-> n.Status,
   RelevanceScore |-> n.RelevanceScore, Depth |-> n.Depth,
   RetryCount |-> n.RetryCount, LastError |-> n.LastError]

EdgeState(from, to) == [From |-> from, To |-> to]

\* a row of wal_log; rows are kept in the order of their insertion
WALEntry(seq, type, payload) ==
  [SequenceNum |-> seq, MutationType |-> type, Payload |-> payload,
   Replayed |-> FALSE]

\* NewSQLiteStorage on an empty database: no row, and seqNumbers has no
\* entry for the graph, which reads as 0
NewSQLiteStorage ==
  [seqNumbers |-> 0, wal |-> <<>>, graphs |-> <<>>, nodes |-> <<>>,
   edges |-> <<>>, snapshots |-> <<>>]

\* getNextSeqNum: the number handed out and the store with the counter moved
getNextSeqNum(s) ==
  [seq |-> s.seqNumbers, store |-> [s EXCEPT !.seqNumbers = @ + 1]]

\* AppendWAL: INSERT INTO wal_log
AppendWAL(s, entry) == [s EXCEPT !.wal = Append(@, entry)]

\* LogMutation run without interruption: getNextSeqNum, then AppendWAL
LogMutation(s, type, payload) ==
  LET r == getNextSeqNum(s)
  IN AppendWAL(r.store, WALEntry(r.seq, type, payload))

\* SaveGraph: upsert of the row of the graph
SaveGraph(s, gs) == [s EXCEPT !.graphs = <<gs>>]

\* UpdateGraphStatus: UPDATE graphs SET status
UpdateGraphStatus(s, status) ==
  [s EXCEPT !.graphs = [i \in 1..Len(@) |-> [@[i] EXCEPT !.Status = status]]]

\* SaveNode: upsert on (graph_id, node_id)
SaveNode(s, ns) ==
  IF \E i \in 1..Len(s.nodes) : s.nodes[i].NodeID = ns.NodeID
  THEN [s EXCEPT !.nodes = [i \in 1..Len(@) |->
                              IF @[i].NodeID = ns.NodeID THEN ns ELSE @[i]]]
  ELSE [s EXCEPT !.nodes = Append(@, ns)]

\* UpdateNodeStatus: UPDATE nodes SET status, retry_count, last_error
UpdateNodeStatus(s, nodeID, status, retryCount, lastError) ==
  [s EXCEPT !.nodes =
     [i \in 1..Len(@) |->
        IF @[i].NodeID = nodeID
        THEN [@[i] EXCEPT !.Status = status, !.RetryCount = retryCount,
                          !.LastError = lastError]
        ELSE @[i]]]

\* SaveEdge: INSERT OR IGNORE on the key (graph_id, from_node, to_node)
SaveEdge(s, from, to) ==
  IF EdgeState(from, to) \in Range(s.edges) THEN s
  ELSE [s EXCEPT !.edges = Append(@, EdgeState(from, to))]

\* the two loops of persistInitialGraph, over the nodes and over the edges
RECURSIVE persistNodes(_, _, _)
persistNodes(s, g, i) ==
  IF i > Len(g.Nodes) THEN s
  ELSE persistNodes(
         LogMutation(SaveNode(s, NodeState(g.Nodes[i])), MutationAddNode,
                     [Node |-> NodeState(g.Nodes[i])]),
         g, i + 1)

RECURSIVE persistEdges(_, _, _)
persistEdges(s, g, i) ==
  IF i > Len(g.Edges) THEN s
  ELSE persistEdges(
         LogMutation(SaveEdge(s, g.Edges[i].From, g.Edges[i].To),
                     MutationAddEdge,
                     [From |-> g.Edges[i].From, To |-> g.Edges[i].To]),
         g, i + 1)

\* DAGExecutor.persistInitialGraph with every database call succeeding
persistInitialGraph(s, g) ==
  persistEdges(
    persistNodes(
      LogMutation(SaveGraph(s, GraphState(g)), MutationCreateGraph,
                  [Graph |-> GraphState(g)]),
      g, 1),
    g, 1)

(***************************************************************************)
(* Signals (dag/graph.go): ReceiveSignal and handleEntityDiscovery.  The   *)
(* goal and the entities are texts, held as sequences of words.  The graph *)
(* has its storage attached; SaveNode or SaveEdge of the call may fail     *)
(* (fault), every other database call succeeds.                           *)
(***************************************************************************)
\* the database call of a ReceiveSignal that fails, "none": no call fails
StorageFaults == {"none", "SaveNode", "SaveEdge"}

\* strings.Contains(s, sub)
Contains(s, sub) ==
  \E i \in 0..(Len(s) - Len(sub)) : SubSeq(s, i + 1, i + Len(sub)) = sub

\* the goal of TestGraph_ReceiveSignal
TestGoal == <<"Research", "Quantum", "Computing">>

\* the entities signals carry: one that the goal contains, one that contains
\* the goal, and one that is unrelated
Entities ==
  << <<"Quantum">>,
     <<"Research", "Quantum", "Computing", "Hardware">>,
     <<"Banana", "Recipes">> >>

\* the text of an entity as it appears in a node ID: its place in Entities
EntityCode(entity) == CHOOSE i \in 1..Len(Entities) : Entities[i] = entity

\* fmt.Sprintf("%s-%s", sig.Source, entity): the source ID followed by the
\* entity, node IDs being numbers whose digits are the characters
newNodeID(source, entity) == source * 10 + EntityCode(entity)

\* dag.Signal; hasEntity tells whether Payload has the key "entity"
Signal(type, source, hasEntity, entity) ==
  [Type |-> type, Source |-> source,
   Payload |-> [hasEntity |-> hasEntity, entity |-> entity]]

\* handleEntityDiscovery: the graph, the store and the error ("nil": none);
\* the node is appended before persistNode and the edge before persistEdge,
\* and a failure of either returns at once
handleEntityDiscovery(g, s, sig, fault) ==
  LET entity == sig.Payload.entity
      goal == g.Metadata.goal
      src == findNode(g, sig.Source)
      newNode == [Node(newNodeID(sig.Source, entity), "agent", {"entity"}, 1)
                    EXCEPT !.ConfigEntity = entity, !.Depth = src.Depth + 1]
      g1 == [g EXCEPT !.Nodes = Append(@, newNode)]
      s1 == LogMutation(SaveNode(s, NodeState(newNode)), MutationAddNode,
                        [Node |-> NodeState(newNode)])
      g2 == [g1 EXCEPT !.Edges = Append(@, Edge(sig.Source, newNode.ID))]
      s2 == LogMutation(SaveEdge(s1, sig.Source, newNode.ID), MutationAddEdge,
                        [From |-> sig.Source, To |-> newNode.ID])
  IN IF ~sig.Payload.hasEntity
     THEN [graph |-> g, store |-> s, err |-> "missing entity"]
     ELSE IF ~g.Metadata.hasGoal
     THEN [graph |-> g, store |-> s, err |-> "missing goal"]
     ELSE IF ~Contains(goal, entity) /\ ~Contains(entity, goal)
     THEN [graph |-> g, store |-> s, err |-> "not relevant"]
     ELSE IF \E i \in 1..Len(g.Nodes) :
               g.Nodes[i].Type = "agent" /\ g.Nodes[i].ConfigEntity = entity
     THEN [graph |-> g, store |-> s, err |-> "nil"]
     ELSE IF NodeIndex(g, sig.Source) = 0
     THEN [graph |-> g, store |-> s, err |-> "source not found"]
     ELSE IF src.Depth >= 1
     THEN [graph |-> g, store |-> s, err |-> "max expansion depth reached"]
     ELSE IF fault = "SaveNode"
     THEN [graph |-> g1, store |-> s, err |-> "failed to persist new node"]
     ELSE IF fault = "SaveEdge"
     THEN [graph |-> g2, store |-> s1, err |-> "failed to persist new edge"]
     ELSE CHOOSE out \in
            {IF e.err # "nil"
             THEN [graph |-> e.graph, store |-> s2, err |-> e.err]
             ELSE [graph |-> IF e.graph.Status = StatusSucceeded
                             THEN [e.graph EXCEPT !.Status = StatusRunning]
                             ELSE e.graph,
                   store |-> s2, err |-> "nil"] :
               e \in {EvaluateReadiness(g2)}} : TRUE

\* a dispatch that takes a signal of any type for an entity discovery
ReceiveSignal_AnyType(g, s, sig, fault) ==
  handleEntityDiscovery(g, s, sig, fault)

\* Graph.ReceiveSignal
ReceiveSignal(g, s, sig, fault) ==
  IF sig.Type = "ENTITY_DISCOVERY"
  THEN handleEntityDiscovery(g, s, sig, fault)
  ELSE [graph |-> g, store |-> s, err |-> "nil"]

(***************************************************************************)
(* Snapshots and recovery (storage/schema.go and the recovery code of the  *)
(* storage package).  The state recovered is the row of the graph, a map   *)
(* from node ID to node, and the list of edges.                            *)
(***************************************************************************)
\* CreateSnapshot keeps the WAL entries of the last 100 sequence numbers
SnapshotKeep == 100

\* the state RecoverGraph starts from when there is no snapshot
EmptyRecoveredState ==
  [Graph |-> [Status |-> "", Metadata |-> NoMetadata],
   Nodes |-> <<>>, Edges |-> <<>>]

\* the map with key k set to v
MapPut(f, k, v) ==
  [i \in (DOMAIN f) \cup {k} |-> IF i = k THEN v ELSE f[i]]

\* the keys of a map in increasing order, as json.Marshal writes them
RECURSIVE SortedKeys(_)
SortedKeys(keys) ==
  IF keys = {} THEN <<>>
  ELSE LET k == CHOOSE x \in keys : \A y \in keys : x <= y
       IN <<k>> \o SortedKeys(keys \ {k})

\* json.Marshal of a RecoveredGraphState: the map becomes a list of
\* members, key and value, ordered by key
encodeSnapshot(state) ==
  [Graph |-> state.Graph,
   Nodes |-> [i \in 1..Cardinality(DOMAIN state.Nodes) |->
                LET k == SortedKeys(DOMAIN state.Nodes)[i]
                IN [key |-> k, value |-> state.Nodes[k]]],
   Edges |-> state.Edges]

\* decodeSnapshot: the members of the list are put into a map one by one
RECURSIVE decodeMembers(_, _, _)
decodeMembers(members, i, f) ==
  IF i > Len(members) THEN f
  ELSE decodeMembers(members, i + 1,
                     MapPut(f, members[i].key, members[i].value))

decodeSnapshot(data) ==
  [Graph |-> data.Graph,
   Nodes |-> decodeMembers(data.Nodes, 1, <<>>),
   Edges |-> data.Edges]

\* decodeWALPayload: the stored payload is read into the structure that
\* belongs to the mutation type; a field the payload lacks is left zero
PayloadField(payload, name, zero) ==
  IF name \in DOMAIN payload THEN payload[name] ELSE zero

decodeWALPayload(type, payload) ==
  CASE type = MutationCreateGraph ->
         [Graph |-> PayloadField(payload, "Graph", EmptyRecoveredState.Graph)]
    [] type = MutationUpdateGraphStatus ->
         [OldStatus |-> PayloadField(payload, "OldStatus", ""),
          NewStatus |-> PayloadField(payload, "NewStatus", "")]
    [] type = MutationAddNode ->
         [Node |-> PayloadField(payload, "Node", NodeState(Node(0, "", {}, 0)))]
    [] type = MutationUpdateNodeStatus ->
         [NodeID |-> PayloadField(payload, "NodeID", 0),
          OldStatus |-> PayloadField(payload, "OldStatus", ""),
          NewStatus |-> PayloadField(payload, "NewStatus", ""),
          RetryCount |-> PayloadField(payload, "RetryCount", 0),
          LastError |-> PayloadField(payload, "LastError", "")]
    [] type = MutationAddEdge ->
         [From |-> PayloadField(payload, "From", 0),
          To |-> PayloadField(payload, "To", 0)]

\* the rows of a list of WAL rows in the order of sequence_num
RECURSIVE OrderBySequenceNum(_)
OrderBySequenceNum(rows) ==
  IF rows = <<>> THEN <<>>
  ELSE LET i == CHOOSE x \in 1..Len(rows) :
                  /\ \A y \in 1..Len(rows) :
                       rows[x].SequenceNum <= rows[y].SequenceNum
                  /\ \A y \in 1..(x - 1) :
                       rows[y].SequenceNum # rows[x].SequenceNum
       IN <<rows[i]>> \o
            OrderBySequenceNum(SubSeq(rows, 1, i - 1) \o
                               SubSeq(rows, i + 1, Len(rows)))

\* GetUnreplayedWAL: WHERE replayed = 0 ORDER BY sequence_num, each payload
\* decoded by its mutation type
GetUnreplayedWAL(s) ==
  LET unreplayed(e) == ~e.Replayed
      rows == OrderBySequenceNum(SelectSeq(s.wal, unreplayed))
  IN [i \in 1..Len(rows) |->
        [rows[i] EXCEPT
           !.Payload = decodeWALPayload(rows[i].MutationType, @)]]

\* MarkWALReplayed: SET replayed = 1 WHERE sequence_num <= upToSeqNum
MarkWALReplayed(s, upToSeqNum) ==
  [s EXCEPT !.wal =
     [i \in 1..Len(@) |->
        IF @[i].SequenceNum <= upToSeqNum
        THEN [@[i] EXCEPT !.Replayed = TRUE] ELSE @[i]]]

\* CleanupOldWAL: DELETE WHERE sequence_num < beforeSeqNum AND replayed = 1
CleanupOldWAL(s, beforeSeqNum) ==
  LET kept(e) == ~(e.SequenceNum < beforeSeqNum /\ e.Replayed)
  IN [s EXCEPT !.wal = SelectSeq(@, kept)]

\* SaveSnapshot: upsert of the one snapshot row of the graph
SaveSnapshot(s, seqNum, data) ==
  [s EXCEPT !.snapshots = <<[SequenceNum |-> seqNum, Data |-> data]>>]

\* applyWALEntry: the state and the error ("nil": none)
applyWALEntry(state, entry) ==
  LET p == entry.Payload
  IN CASE entry.MutationType = MutationCreateGraph ->
            [state |-> [state EXCEPT !.Graph = p.Graph], err |-> "nil"]
       [] entry.MutationType = MutationUpdateGraphStatus ->
            [state |-> [state EXCEPT !.Graph.Status = p.NewStatus],
             err |-> "nil"]
       [] entry.MutationType = MutationAddNode ->
            [state |-> [state EXCEPT
                          !.Nodes = MapPut(@, p.Node.NodeID, p.Node)],
             err |-> "nil"]
       [] entry.MutationType = MutationUpdateNodeStatus ->
            IF p.NodeID \notin DOMAIN state.Nodes
            THEN [state |-> state, err |-> "node not found for status update"]
            ELSE [state |-> [state EXCEPT
                               !.Nodes[p.NodeID].Status = p.NewStatus,
                               !.Nodes[p.NodeID].RetryCount = p.RetryCount,
                               !.Nodes[p.NodeID].LastError = p.LastError],
                  err |-> "nil"]
       [] entry.MutationType = MutationAddEdge ->
            [state |-> [state EXCEPT
                          !.Edges = Append(@, EdgeState(p.From, p.To))],
             err |-> "nil"]
       [] OTHER -> [state |-> state, err |-> "unknown mutation type"]

\* the replay loop of RecoverGraph over entries[i..]; applied lists the
\* sequence numbers of the entries applied so far
RECURSIVE ReplayFrom(_, _, _, _)
ReplayFrom(state, entries, i, applied) ==
  IF i > Len(entries)
  THEN [state |-> state, err |-> "nil", applied |-> applied]
  ELSE CHOOSE out \in
         {IF r.err # "nil"
          THEN [state |-> state, err |-> r.err, applied |-> applied]
          ELSE ReplayFrom(r.state, entries, i + 1,
                          Append(applied, entries[i].SequenceNum)) :
            r \in {applyWALEntry(state, entries[i])}} : TRUE

\* SQLiteStorage.RecoverGraph: the state returned (none when err is not
\* "nil"), the error, the sequence numbers applied, and the store after
\* the call
RecoverGraph(s) ==
  LET start == IF s.snapshots # <<>>
               THEN decodeSnapshot(s.snapshots[1].Data)
               ELSE EmptyRecoveredState
      walEntries == GetUnreplayedWAL(s)
  IN IF walEntries = <<>>
     THEN [state |-> start, err |-> "nil", applied |-> <<>>, store |-> s]
     ELSE CHOOSE out \in
            {IF r.err # "nil"
             THEN [state |-> EmptyRecoveredState, err |-> r.err,
                   applied |-> r.applied, store |-> s]
             ELSE [state |-> r.state, err |-> "nil", applied |-> r.applied,
                   store |-> MarkWALReplayed(
                               s, walEntries[Len(walEntries)].SequenceNum)] :
               r \in {ReplayFrom(start, walEntries, 1, <<>>)}} : TRUE

\* the rows of the nodes table as a map from node ID to node
RECURSIVE NodesByID(_, _, _)
NodesByID(rows, i, f) ==
  IF i > Len(rows) THEN f
  ELSE NodesByID(rows, i + 1, MapPut(f, rows[i].NodeID, rows[i]))

\* SQLiteStorage.CreateSnapshot: the store and the error; LoadGraph fails
\* when the graph has no row
CreateSnapshot(s) ==
  IF s.graphs = <<>> THEN [store |-> s, err |-> "failed to load graph"]
  ELSE LET state == [Graph |-> s.graphs[1],
                     Nodes |-> NodesByID(s.nodes, 1, <<>>),
                     Edges |-> s.edges]
           seqNum == s.seqNumbers - 1
           s1 == SaveSnapshot(s, seqNum, encodeSnapshot(state))
       IN [store |-> IF seqNum - SnapshotKeep > 0
                     THEN CleanupOldWAL(s1, seqNum - SnapshotKeep)
                     ELSE s1,
           err |-> "nil"]

\* loadSequenceNumbers at the start of a process: MAX(sequence_num) + 1, and
\* no entry (read as 0) for a graph without WAL rows
loadSequenceNumbers(s) ==
  IF s.wal = <<>> THEN [s EXCEPT !.seqNumbers = 0]
  ELSE [s EXCEPT !.seqNumbers =
          1 + (CHOOSE m \in {s.wal[i].SequenceNum : i \in 1..Len(s.wal)} :
                 \A i \in 1..Len(s.wal) : s.wal[i].SequenceNum <= m)]

(***************************************************************************)
(* State                                                                   *)
(***************************************************************************)
VARIABLES
  store,            \* the SQLite database and the storage object over it
  logCalls,         \* per client goroutine: its LogMutation call in progress
  graph,            \* the dag.Graph handed to Execute (nodes, edges, status)
  maxWorkers,       \* DAGExecutor.maxWorkers
  retryPolicy,      \* DAGExecutor.retryPolicy
  ctxDone,          \* the context of the run has been cancelled
  pc,               \* position of the driver (Execute)
  pendingCount,     \* Execute's pendingCount: workers spawned, not reconciled
  resultChan,       \* results sent by workers, not yet received
  chanClosed,       \* Execute has returned: resultChan is closed
  nodeResults,      \* Execute's nodeResults map
  ret,              \* what Execute returned
  wk,               \* per node: the worker goroutine (executeNodeAsync)
  circuitBreakers,  \* DAGExecutor.circuitBreakers: node type -> breaker
  retryMetrics,     \* DAGExecutor.retryMetrics: node ID -> NodeMetrics
  checkpointStore,  \* stored AttemptNumber per node ID, 0: no checkpoint
  tokens,           \* free tokens of the rate limiter of each node type
  locks,            \* InMemoryLock.locks: node ID -> expiresAt, 0: no entry
  calls,            \* history: per node, the outcomes of its remote calls
  backoffs,         \* history: per node, the number of backoff waits begun
  everRunning,      \* history: the nodes that have been RUNNING
  last,             \* history: the last call of the graph API and its outcome
  now,              \* the wall clock (time.Now), in seconds
  admitted,         \* per node type: requests let through by ShouldAllow
                    \* while HalfOpen whose outcome is not yet recorded
  holding           \* per node ID: workers that acquired the node's lock
                    \* and have not yet released it

vars ==
  <<store, logCalls, graph, maxWorkers, retryPolicy, ctxDone, pc, pendingCount, resultChan,
    chanClosed, nodeResults, ret, wk, circuitBreakers, retryMetrics,
    checkpointStore, tokens, locks, calls, backoffs, everRunning, last, now,
    admitted, holding>>

\* a worker goroutine that has not been spawned
IdleWorker ==
  [pc |-> "idle", attempt |-> 0, startAttempt |-> 0, result |-> NoResult,
   lock |-> FALSE, token |-> FALSE]

\* the client goroutines that log mutations at the same time
Clients == {"a", "b"}

\* a client that is not inside LogMutation
IdleClient == [pc |-> "idle", seqNum |-> 0]

NoLogCalls == [c \in Clients |-> IdleClient]

\* no request is between ShouldAllow and the recording of its outcome
NoneAdmitted == [t \in NodeTypes |-> 0]

\* no worker holds a node lock
NoneHolding == [id \in AllNodeIDs |-> 0]

NoCall ==
  [op |-> "none", id |-> 0, target |-> "", before |-> <<>>, err |-> "nil"]

\* breaker states a long-lived executor can hold when a run starts: fresh,
\* Closed one failure short of the evaluation window, and Open
BreakerStartStates ==
  {NewCircuitBreaker,
   [NewCircuitBreaker EXCEPT !.failures = minRequests - 1],
   [NewCircuitBreaker EXCEPT !.state = CircuitOpen, !.failures = minRequests]}

\* NewInMemoryLock: no entry; an entry is the expiresAt of the node's lock,
\* which is now + ttl > 0
NoLocks == [id \in AllNodeIDs |-> 0]

\* InMemoryLock.AcquireNodeLock(nodeID, ttl) at the time t
AcquireNodeLock(l, id, ttl, t) ==
  IF l[id] # 0 /\ t < l[id]
  THEN [locks |-> l, acquired |-> FALSE]
  ELSE [locks |-> [l EXCEPT ![id] = t + ttl], acquired |-> TRUE]

\* InMemoryLock.ReleaseNodeLock(nodeID)
ReleaseNodeLock(l, id) ==
  IF l[id] = 0
  THEN [locks |-> l, err |-> "lock not found"]
  ELSE [locks |-> [l EXCEPT ![id] = 0], err |-> "nil"]

\* InMemoryLock.cleanupExpiredLocks at the time t
cleanupExpiredLocks(l, t) ==
  [id \in AllNodeIDs |-> IF l[id] # 0 /\ t > l[id] THEN 0 ELSE l[id]]

\* the lock table when a run starts: empty, or the lock of node 1 is held
\* by another execution of that node
LockStartStates == {NoLocks, [NoLocks EXCEPT ![1] = LockTimeout]}

\* NewRateLimiter: the tokens of a limiter made for maxConcurrent requests
NewRateLimiter(maxConcurrent) == IF maxConcurrent <= 0 THEN 1 ELSE maxConcurrent

\* RateLimiter.TryAcquire on a limiter with n free tokens
TryAcquire(n) ==
  IF n > 0 THEN [tokens |-> n - 1, ok |-> TRUE] ELSE [tokens |-> n, ok |-> FALSE]

\* RateLimiter.Acquire(ctx): the outcomes the select can take; none while
\* no token is free and the context is not done (the call blocks)
Acquire(n, done) ==
  {[tokens |-> n - 1, err |-> "nil"] : x \in IF n > 0 THEN {TRUE} ELSE {}}
    \cup {[tokens |-> n, err |-> "rate_limit_cancelled"] :
             x \in IF done THEN {TRUE} ELSE {}}

\* a Release that puts the token back without looking at the capacity
Release_NoDiscard(n, max) == n + 1

\* RateLimiter.Release on a limiter of max tokens with n free: the token is
\* discarded when the channel is full
Release(n, max) == IF n < max THEN n + 1 ELSE n

\* NewRateLimiterManager: one shared limiter per listed service type; for
\* any other type GetLimiter hands out a new limiter on every call, which
\* never blocks
LimitedTypes == {"researcher", "critic", "synthesizer"}

RateLimit(t) ==
  CASE t = "researcher" -> ResearcherRateLimit
    [] t = "critic" -> CriticRateLimit
    [] t = "synthesizer" -> SynthesizerRateLimit

NewRateLimiterManager == [t \in LimitedTypes |-> NewRateLimiter(RateLimit(t))]

RunningIDs(g) ==
  {g.Nodes[i].ID : i \in {j \in 1..Len(g.Nodes) :
                            g.Nodes[j].Status = StatusRunning}}

\* Execute is called on a freshly built graph by an executor whose breaker
\* of the researcher service and whose checkpoint of node 1 may carry state
\* of earlier runs, and whose lock of node 1 may be held by another run
Init ==
  /\ graph \in Range(GraphCatalog)
  /\ maxWorkers \in 1..MaxWorkersBound
  /\ retryPolicy \in [MaxAttempts : 0..MaxRetryBound]
  /\ ctxDone = FALSE
  /\ pc = "start"
  /\ pendingCount = 0
  /\ resultChan = <<>>
  /\ chanClosed = FALSE
  /\ nodeResults = <<>>
  /\ ret = NotReturned
  /\ wk = [id \in AllNodeIDs |-> IdleWorker]
  /\ \E b \in BreakerStartStates :
       circuitBreakers =
         [t \in NodeTypes |-> IF t = "researcher" THEN b ELSE NewCircuitBreaker]
  /\ retryMetrics = [id \in AllNodeIDs |-> NewNodeMetrics]
  /\ \E a \in 0..retryPolicy.MaxAttempts :
       checkpointStore = [id \in AllNodeIDs |-> IF id = 1 THEN a ELSE 0]
  /\ tokens = NewRateLimiterManager
  /\ locks \in LockStartStates
  /\ calls = [id \in AllNodeIDs |-> <<>>]
  /\ backoffs = [id \in AllNodeIDs |-> 0]
  /\ everRunning = {}
  /\ last = NoCall
  /\ now = 0
  /\ admitted = NoneAdmitted
  /\ holding = NoneHolding
  /\ store = NewSQLiteStorage
  /\ logCalls = NoLogCalls

(***************************************************************************)
(* The driver: DAGExecutor.Execute                                         *)
(***************************************************************************)
\* Execute returns r; the deferred close(resultChan) runs
Return(r) ==
  /\ ret' = r
  /\ pc' = "done"
  /\ chanClosed' = TRUE

\* the termination check at the end of a loop iteration, with the graph g,
\* the count pending and the results map results of that moment
Terminate(g, pending, results) ==
  IF pending = 0 /\ GetReadyNodesCount(g) = 0
  THEN Return(TerminationResult(g, results))
  ELSE /\ pc' = "schedule"
       /\ UNCHANGED <<ret, chanClosed>>

\* Execute up to its loop: Validate, SetStatus(RUNNING), EvaluateReadiness
DriverStart ==
  /\ pc = "start"
  /\ store' = persistInitialGraph(store, graph)
  /\ \E v \in {Validate(graph)}, s \in {SetStatus(graph, StatusRunning)} :
     \E e \in {EvaluateReadiness(s.graph)} :
        IF v # "nil"
        THEN /\ ret' = ExecutionError("graph validation failed")
             /\ pc' = "done"
             /\ UNCHANGED <<graph, chanClosed>>
        ELSE IF s.err # "nil"
        THEN /\ ret' = ExecutionError("failed to set graph status")
             /\ pc' = "done"
             /\ UNCHANGED <<graph, chanClosed>>
        ELSE IF e.err # "nil"
        THEN /\ ret' = ExecutionError("failed to evaluate readiness")
             /\ pc' = "done"
             /\ graph' = e.graph
             /\ UNCHANGED chanClosed
        ELSE /\ graph' = e.graph
             /\ pc' = "schedule"
             /\ UNCHANGED <<ret, chanClosed>>
  /\ everRunning' = everRunning \cup RunningIDs(graph')
  /\ UNCHANGED <<logCalls, now, admitted, holding, maxWorkers, retryPolicy, ctxDone, pendingCount, resultChan,
                 nodeResults, wk, circuitBreakers, retryMetrics,
                 checkpointStore, tokens, locks, calls, backoffs, last>>

\* top of the loop: the cancellation check, then ScheduleNextBatch and one
\* goroutine per scheduled node; with nothing in flight the termination
\* check follows at once
DriverSchedule ==
  /\ pc = "schedule"
  /\ IF ctxDone
     THEN /\ Return(ExecutionError("execution cancelled"))
          /\ UNCHANGED <<graph, pendingCount, wk>>
     ELSE \E r \in {IF maxWorkers - pendingCount > 0
                     THEN ScheduleNextBatch(graph, maxWorkers - pendingCount)
                     ELSE [graph |-> graph, batch |-> <<>>, err |-> "nil"]} :
          LET pending == pendingCount + Len(r.batch)
          IN IF r.err # "nil"
             THEN /\ Return(ExecutionError("scheduling failed"))
                  /\ graph' = r.graph
                  /\ UNCHANGED <<pendingCount, wk>>
             ELSE /\ graph' = r.graph
                  /\ pendingCount' = pending
                  /\ wk' = [id \in AllNodeIDs |->
                              IF id \in Range(r.batch)
                              THEN [IdleWorker EXCEPT !.pc = "spawned"]
                              ELSE wk[id]]
                  /\ IF pending > 0
                     THEN /\ pc' = "wait"
                          /\ UNCHANGED <<ret, chanClosed>>
                     ELSE Terminate(r.graph, pending, nodeResults)
  /\ everRunning' = everRunning \cup RunningIDs(graph')
  /\ UNCHANGED <<store, logCalls, now, admitted, holding, maxWorkers, retryPolicy, ctxDone, resultChan, nodeResults,
                 circuitBreakers, retryMetrics, checkpointStore, tokens,
                 locks, calls, backoffs, last>>

\* the wait on resultChan delivers a result: reconcile it, re-evaluate
\* readiness, then the termination check
DriverReceive ==
  /\ pc = "wait"
  /\ resultChan # <<>>
  /\ LET result == Head(resultChan)
         pending == pendingCount - 1
         results == (result.NodeID :> result) @@ nodeResults
         newStatus == IF result.Success THEN StatusSucceeded ELSE StatusFailed
     IN \E s \in {SetNodeStatus(graph, result.NodeID, newStatus)} :
        \E e \in {EvaluateReadiness(s.graph)} :
        /\ resultChan' = Tail(resultChan)
        /\ pendingCount' = pending
        /\ nodeResults' = results
        /\ IF s.err # "nil"
           THEN /\ Return(ExecutionError("failed to update node status"))
                /\ UNCHANGED graph
           ELSE IF e.err # "nil"
           THEN /\ Return(ExecutionError("failed to re-evaluate readiness"))
                /\ graph' = e.graph
           ELSE /\ graph' = e.graph
                /\ Terminate(e.graph, pending, results)
  /\ everRunning' = everRunning \cup RunningIDs(graph')
  /\ UNCHANGED <<store, logCalls, now, admitted, holding, maxWorkers, retryPolicy, ctxDone, wk, circuitBreakers,
                 retryMetrics, checkpointStore, tokens, locks, calls,
                 backoffs, last>>

\* the wait on resultChan is ended by the cancellation of the context
DriverCancelled ==
  /\ pc = "wait"
  /\ ctxDone
  /\ Return(ExecutionError("execution cancelled"))
  /\ UNCHANGED <<store, logCalls, now, admitted, holding, graph, maxWorkers, retryPolicy, ctxDone, pendingCount,
                 resultChan, nodeResults, wk, circuitBreakers, retryMetrics,
                 checkpointStore, tokens, locks, calls, backoffs,
                 everRunning, last>>

\* the caller cancels the context of the run
Cancel ==
  /\ ~ctxDone
  /\ ctxDone' = TRUE
  /\ UNCHANGED <<store, logCalls, now, admitted, holding, graph, maxWorkers, retryPolicy, pc, pendingCount,
                 resultChan, chanClosed, nodeResults, ret, wk,
                 circuitBreakers, retryMetrics, checkpointStore, tokens,
                 locks, calls, backoffs, everRunning, last>>

(***************************************************************************)
(* The per-node worker: DAGExecutor.executeNodeAsync                       *)
(***************************************************************************)
\* the loop condition of the retry loop
LoopContinues(attempt, policy) == attempt <= policy.MaxAttempts

\* InMemoryCheckpointStore, as the AttemptNumber stored per node ID of the run
\* (0: no checkpoint; Save is only called with attempt + 1 >= 1)
\* Save: the checkpoint of the node is replaced
Save(cs, id, attemptNumber) == [cs EXCEPT ![id] = attemptNumber]

\* Load: the stored AttemptNumber, 0 from the zero-value checkpoint returned
\* for a node that has none
Load(cs, id) == cs[id]

\* a Delete that leaves the checkpoint where it is
Delete_Keep(cs, id) == cs

\* Delete: the checkpoint of the node is removed
Delete(cs, id) == [cs EXCEPT ![id] = 0]

\* an exhaustion test that gives up one attempt early
RetriesExhausted_OneShort(attempt, policy) == attempt + 1 >= policy.MaxAttempts

\* "if attempt >= e.retryPolicy.MaxAttempts": the retries are used up
RetriesExhausted(attempt, policy) == attempt >= policy.MaxAttempts

\* "if attempt > 0": the attempt is a retry and the node is set to RETRYING
IsRetryAttempt(attempt) == attempt > 0

\* the worker's writes of LastError and RetryCount to its node in the graph
SetNodeError(g, id, err, retryCount) ==
  LET i == NodeIndex(g, id)
  IN IF i = 0 THEN g
     ELSE [g EXCEPT !.Nodes[i].LastError = err,
                    !.Nodes[i].RetryCount = retryCount]

\* outcomes of a remote call: a call may report the cancellation once the
\* context is cancelled
RPCOutcomes ==
  {"ok", "deadline_exceeded", "invalid_argument"}
    \cup (IF ctxDone THEN {"canceled"} ELSE {})

\* AcquireNodeLockWithRetry: the lock is taken when it is free; held by
\* someone else it is not obtained and the worker reports a failure
WorkerAcquireLock(id) ==
  /\ wk[id].pc = "spawned"
  /\ \E r \in {AcquireNodeLock(locks, id, LockTimeout, now)} :
       /\ locks' = r.locks
       /\ IF r.acquired
          THEN wk' = [wk EXCEPT ![id].pc = "ratelimit", ![id].lock = TRUE]
          ELSE wk' = [wk EXCEPT
                        ![id].pc = "send",
                        ![id].result =
                           NodeResult(id, FALSE, "nil", "lock_not_acquired")]
  /\ UNCHANGED <<store, logCalls, now, admitted, holding, graph, maxWorkers, retryPolicy, ctxDone, pc, pendingCount,
                 resultChan, chanClosed, nodeResults, ret, circuitBreakers,
                 retryMetrics, checkpointStore, tokens, calls, backoffs,
                 everRunning, last>>

\* limiter.Acquire(ctx), then the load of the checkpoint
WorkerAcquireToken(id) ==
  /\ wk[id].pc = "ratelimit"
  /\ LET t == findNode(graph, id).Type
     IN \/ /\ t \in LimitedTypes => tokens[t] > 0
           /\ tokens' = IF t \in LimitedTypes
                        THEN [tokens EXCEPT ![t] = @ - 1] ELSE tokens
           /\ wk' = [wk EXCEPT ![id].pc = "loop", ![id].token = TRUE,
                               ![id].startAttempt =
                                  Load(checkpointStore, id),
                               ![id].attempt = Load(checkpointStore, id)]
        \/ /\ ctxDone
           /\ wk' = [wk EXCEPT
                       ![id].pc = "send",
                       ![id].result =
                          NodeResult(id, FALSE, "nil", "rate_limit_cancelled")]
           /\ UNCHANGED tokens
  /\ UNCHANGED <<store, logCalls, now, admitted, holding, graph, maxWorkers, retryPolicy, ctxDone, pc, pendingCount,
                 resultChan, chanClosed, nodeResults, ret, circuitBreakers,
                 retryMetrics, checkpointStore, locks, calls, backoffs,
                 everRunning, last>>

\* head of one iteration of the retry loop: RecordAttempt, the circuit
\* breaker check, and RETRYING for a retry attempt
WorkerLoop(id) ==
  /\ wk[id].pc = "loop"
  /\ IF ~LoopContinues(wk[id].attempt, retryPolicy)
     THEN /\ wk' = [wk EXCEPT ![id].pc = "final"]
          /\ UNCHANGED <<graph, circuitBreakers, retryMetrics>>
     ELSE \E elapsed \in BOOLEAN :
            LET t == findNode(graph, id).Type
                a == ShouldAllow(circuitBreakers[t], elapsed)
                m == MetricsRecordAttempt(retryMetrics[id])
            IN /\ circuitBreakers' = [circuitBreakers EXCEPT ![t] = a.cb]
               /\ IF ~a.allow
                  THEN /\ retryMetrics' =
                            [retryMetrics EXCEPT
                               ![id] = MetricsRecordCircuitBreakerHit(m)]
                       /\ wk' = [wk EXCEPT
                                   ![id].pc = "final",
                                   ![id].result =
                                      NodeResult(id, FALSE, "nil",
                                                 "circuit_open")]
                       /\ UNCHANGED graph
                  ELSE /\ retryMetrics' = [retryMetrics EXCEPT ![id] = m]
                       /\ graph' =
                            IF IsRetryAttempt(wk[id].attempt)
                            THEN SetNodeStatus(graph, id, StatusRetrying).graph
                            ELSE graph
                       /\ wk' = [wk EXCEPT ![id].pc = "rpc"]
  /\ everRunning' = everRunning \cup RunningIDs(graph')
  /\ UNCHANGED <<store, logCalls, now, admitted, holding, maxWorkers, retryPolicy, ctxDone, pc, pendingCount,
                 resultChan, chanClosed, nodeResults, ret, checkpointStore,
                 tokens, locks, calls, backoffs, last>>

\* executeNode and what follows it in the iteration: on success the breaker
\* and the metrics record it and the checkpoint is deleted; on failure the
\* error is classified and recorded, and the loop ends for a permanent error
\* or when the retries are used up, else a checkpoint is saved, the node's
\* LastError and RetryCount are written and the backoff wait begins
WorkerInvoke(id) ==
  /\ wk[id].pc = "rpc"
  /\ \E rpc \in RPCOutcomes :
       LET node == findNode(graph, id)
           t == node.Type
           invoked == RPCInvoked(node, graph, nodeResults)
           result == executeNode(node, graph, nodeResults, rpc)
           errorType == ClassifyError(result.Error)
       IN /\ calls' = IF invoked THEN [calls EXCEPT ![id] = Append(@, rpc)]
                      ELSE calls
          /\ IF result.Success
             THEN /\ circuitBreakers' =
                       [circuitBreakers EXCEPT ![t] = RecordSuccess(@)]
                  /\ retryMetrics' =
                       [retryMetrics EXCEPT ![id] = MetricsRecordSuccess(@)]
                  /\ checkpointStore' = Delete(checkpointStore, id)
                  /\ wk' = [wk EXCEPT ![id].pc = "final",
                                      ![id].result = result]
                  /\ UNCHANGED <<graph, backoffs>>
             ELSE /\ circuitBreakers' =
                       [circuitBreakers EXCEPT ![t] = RecordFailure(@, now)]
                  /\ retryMetrics' =
                       [retryMetrics EXCEPT
                          ![id] = MetricsRecordFailure(@, errorType)]
                  /\ IF \/ ~IsRetryable(result.Error)
                        \/ RetriesExhausted(wk[id].attempt, retryPolicy)
                     THEN /\ wk' = [wk EXCEPT ![id].pc = "final",
                                              ![id].result = result]
                          /\ UNCHANGED <<graph, checkpointStore, backoffs>>
                     ELSE /\ checkpointStore' =
                               Save(checkpointStore, id, wk[id].attempt + 1)
                          /\ graph' = SetNodeError(graph, id, result.Error,
                                                   wk[id].attempt + 1)
                          /\ backoffs' = [backoffs EXCEPT ![id] = @ + 1]
                          /\ wk' = [wk EXCEPT ![id].pc = "backoff",
                                              ![id].result = result]
  /\ UNCHANGED <<store, logCalls, now, admitted, holding, maxWorkers, retryPolicy, ctxDone, pc, pendingCount,
                 resultChan, chanClosed, nodeResults, ret, tokens, locks,
                 everRunning, last>>

\* the select of the backoff wait: the timer fires, or the context is done;
\* in the second case the error is replaced, and the break leaves only the
\* select, so the loop goes on with the next attempt either way
WorkerBackoff(id) ==
  /\ wk[id].pc = "backoff"
  /\ \/ wk' = [wk EXCEPT ![id].pc = "loop", ![id].attempt = @ + 1]
     \/ /\ ctxDone
        /\ wk' = [wk EXCEPT ![id].pc = "loop", ![id].attempt = @ + 1,
                            ![id].result.Error = "retry_cancelled"]
  /\ UNCHANGED <<store, logCalls, now, admitted, holding, graph, maxWorkers, retryPolicy, ctxDone, pc, pendingCount,
                 resultChan, chanClosed, nodeResults, ret, circuitBreakers,
                 retryMetrics, checkpointStore, tokens, locks, calls,
                 backoffs, everRunning, last>>

\* deferred calls that release the node lock and keep the limiter's token
ReleaseHeld_KeepToken(id) ==
  /\ tokens' = tokens
  /\ locks' = IF wk[id].lock THEN ReleaseNodeLock(locks, id).locks ELSE locks

\* the deferred limiter.Release() and ReleaseNodeLock of a worker
ReleaseHeld(id) ==
  LET t == findNode(graph, id).Type
  IN /\ tokens' = IF wk[id].token /\ t \in LimitedTypes
                  THEN [tokens EXCEPT ![t] = Release(@, RateLimit(t))]
                  ELSE tokens
     /\ locks' = IF wk[id].lock THEN ReleaseNodeLock(locks, id).locks
                 ELSE locks

\* after the retry loop: a failed result is written to the node's LastError
\* and RetryCount; a loop that never ran leaves a nil result, whose
\* dereference panics
WorkerFinal(id) ==
  /\ wk[id].pc = "final"
  /\ IF wk[id].result = NoResult
     THEN /\ wk' = [wk EXCEPT ![id].pc = "panicked", ![id].lock = FALSE,
                              ![id].token = FALSE]
          /\ ReleaseHeld(id)
          /\ UNCHANGED graph
     ELSE /\ graph' =
               IF ~wk[id].result.Success /\ wk[id].result.Error # "nil"
               THEN SetNodeError(graph, id, wk[id].result.Error,
                                 wk[id].startAttempt + 1)
               ELSE graph
          /\ wk' = [wk EXCEPT ![id].pc = "send"]
          /\ UNCHANGED <<tokens, locks>>
  /\ UNCHANGED <<store, logCalls, now, admitted, holding, maxWorkers, retryPolicy, ctxDone, pc, pendingCount,
                 resultChan, chanClosed, nodeResults, ret, circuitBreakers,
                 retryMetrics, checkpointStore, calls, backoffs, everRunning,
                 last>>

\* "resultChan <- result", then the deferred releases; the send panics when
\* Execute has returned and closed the channel
WorkerSend(id) ==
  /\ wk[id].pc = "send"
  /\ IF chanClosed
     THEN /\ wk' = [wk EXCEPT ![id].pc = "panicked", ![id].lock = FALSE,
                              ![id].token = FALSE]
          /\ UNCHANGED resultChan
     ELSE /\ Len(resultChan) < maxWorkers
          /\ resultChan' = Append(resultChan, wk[id].result)
          /\ wk' = [wk EXCEPT ![id].pc = "exited", ![id].lock = FALSE,
                              ![id].token = FALSE]
  /\ ReleaseHeld(id)
  /\ UNCHANGED <<store, logCalls, now, admitted, holding, graph, maxWorkers, retryPolicy, ctxDone, pc, pendingCount,
                 chanClosed, nodeResults, ret, circuitBreakers, retryMetrics,
                 checkpointStore, calls, backoffs, everRunning, last>>

(***************************************************************************)
(* An Execute run                                                          *)
(***************************************************************************)
Next ==
  \/ DriverStart
  \/ DriverSchedule
  \/ DriverReceive
  \/ DriverCancelled
  \/ Cancel
  \/ \E id \in AllNodeIDs : WorkerAcquireLock(id)
  \/ \E id \in AllNodeIDs : WorkerAcquireToken(id)
  \/ \E id \in AllNodeIDs : WorkerLoop(id)
  \/ \E id \in AllNodeIDs : WorkerInvoke(id)
  \/ \E id \in AllNodeIDs : WorkerBackoff(id)
  \/ \E id \in AllNodeIDs : WorkerFinal(id)
  \/ \E id \in AllNodeIDs : WorkerSend(id)

Spec == Init /\ [][Next]_vars

\* a step of the driver or of a spawned worker
Progress ==
  \/ DriverStart
  \/ DriverSchedule
  \/ DriverReceive
  \/ DriverCancelled
  \/ \E id \in AllNodeIDs :
       \/ WorkerAcquireLock(id)
       \/ WorkerAcquireToken(id)
       \/ WorkerLoop(id)
       \/ WorkerInvoke(id)
       \/ WorkerBackoff(id)
       \/ WorkerFinal(id)
       \/ WorkerSend(id)

\* the scheduling the Go runtime and the remote services guarantee: while the
\* driver or a worker can take a step, one of them does (goroutines are
\* scheduled, remote calls return, backoff timers fire); whether the context
\* is cancelled is up to the caller
Fairness == WF_vars(Progress)

\* the runs of a fresh executor (breakers Closed and empty, no checkpoint)
\* on the graphs that have dependencies
InitFair ==
  /\ Init
  /\ \E id \in NodeIDs(graph) : Parents(graph, id) # {}
  /\ circuitBreakers = [t \in NodeTypes |-> NewCircuitBreaker]
  /\ checkpointStore = [id \in AllNodeIDs |-> 0]

FairSpec == InitFair /\ [][Next]_vars /\ Fairness

(***************************************************************************)
(* The graph API called directly (as the package's tests do): SetNodeStatus,*)
(* SetStatus and EvaluateReadiness applied to graphs in any status          *)
(***************************************************************************)
\* the valid graphs of the catalog the API is exercised on
APIGraphs == {GraphCatalog[2], GraphCatalog[5]}

\* a graph with the given node statuses and graph status
WithStatuses(g, st, gs) ==
  [g EXCEPT !.Status = gs,
            !.Nodes = [i \in 1..Len(g.Nodes) |->
                         [g.Nodes[i] EXCEPT !.Status = st[i]]]]

InitAPI ==
  /\ \E g \in APIGraphs :
       \E st \in [1..Len(g.Nodes) -> Status] :
         \E gs \in Status : graph = WithStatuses(g, st, gs)
  /\ maxWorkers = 1
  /\ retryPolicy = [MaxAttempts |-> 0]
  /\ ctxDone = FALSE
  /\ pc = "api"
  /\ pendingCount = 0
  /\ resultChan = <<>>
  /\ chanClosed = FALSE
  /\ nodeResults = <<>>
  /\ ret = NotReturned
  /\ wk = [id \in AllNodeIDs |-> IdleWorker]
  /\ circuitBreakers = [t \in NodeTypes |-> NewCircuitBreaker]
  /\ retryMetrics = [id \in AllNodeIDs |-> NewNodeMetrics]
  /\ checkpointStore = [id \in AllNodeIDs |-> 0]
  /\ tokens = NewRateLimiterManager
  /\ locks = NoLocks
  /\ calls = [id \in AllNodeIDs |-> <<>>]
  /\ backoffs = [id \in AllNodeIDs |-> 0]
  /\ everRunning = {}
  /\ last = NoCall
  /\ now = 0
  /\ admitted = NoneAdmitted
  /\ holding = NoneHolding
  /\ store = NewSQLiteStorage
  /\ logCalls = NoLogCalls

APIUnchanged ==
  UNCHANGED <<store, logCalls, now, admitted, holding, maxWorkers, retryPolicy, ctxDone, pc, pendingCount, resultChan,
              chanClosed, nodeResults, ret, wk, circuitBreakers, retryMetrics,
              checkpointStore, tokens, locks, calls, backoffs, everRunning>>

\* a call of Graph.SetNodeStatus(id, t); id may be an ID no node has
CallSetNodeStatus(id, t) ==
  /\ pc = "api"
  /\ LET r == SetNodeStatus(graph, id, t)
     IN /\ graph' = r.graph
        /\ last' = [op |-> "SetNodeStatus", id |-> id, target |-> t,
                    before |-> graph, err |-> r.err]
  /\ APIUnchanged

\* a call of Graph.SetStatus(t)
CallSetStatus(t) ==
  /\ pc = "api"
  /\ LET r == SetStatus(graph, t)
     IN /\ graph' = r.graph
        /\ last' = [op |-> "SetStatus", id |-> 0, target |-> t,
                    before |-> graph, err |-> r.err]
  /\ APIUnchanged

\* a call of Graph.EvaluateReadiness()
CallEvaluateReadiness ==
  /\ pc = "api"
  /\ LET r == EvaluateReadiness(graph)
     IN /\ graph' = r.graph
        /\ last' = [op |-> "EvaluateReadiness", id |-> 0, target |-> "",
                    before |-> graph, err |-> r.err]
  /\ APIUnchanged

NextAPI ==
  \/ \E id \in AllNodeIDs, t \in Status : CallSetNodeStatus(id, t)
  \/ \E t \in Status : CallSetStatus(t)
  \/ CallEvaluateReadiness

SpecAPI == InitAPI /\ [][NextAPI]_vars

(***************************************************************************)
(* The scheduler called directly (as dag/scheduler_test.go does):          *)
(* ScheduleNextBatch applied to graphs whose nodes are in any status       *)
(***************************************************************************)
\* everything but the graph, the position and the store: an executor that
\* runs nothing
IdleExecutor ==
  /\ maxWorkers = 1
  /\ retryPolicy = [MaxAttempts |-> 0]
  /\ ctxDone = FALSE
  /\ pendingCount = 0
  /\ resultChan = <<>>
  /\ chanClosed = FALSE
  /\ nodeResults = <<>>
  /\ ret = NotReturned
  /\ wk = [id \in AllNodeIDs |-> IdleWorker]
  /\ circuitBreakers = [t \in NodeTypes |-> NewCircuitBreaker]
  /\ retryMetrics = [id \in AllNodeIDs |-> NewNodeMetrics]
  /\ checkpointStore = [id \in AllNodeIDs |-> 0]
  /\ tokens = NewRateLimiterManager
  /\ locks = NoLocks
  /\ calls = [id \in AllNodeIDs |-> <<>>]
  /\ backoffs = [id \in AllNodeIDs |-> 0]
  /\ everRunning = {}
  /\ last = NoCall
  /\ now = 0
  /\ admitted = NoneAdmitted
  /\ holding = NoneHolding

\* two nodes of equal relevance, and three nodes of which the two of lower
\* relevance tie and are listed with the larger ID first
SchedGraphs ==
  {GraphCatalog[2],
   Graph(<<Node(3, "researcher", {"query"}, 5),
           Node(1, "researcher", {"query"}, 5),
           Node(2, "researcher", {"query"}, 10)>>, <<>>)}

InitSchedule ==
  /\ \E g \in SchedGraphs :
       \E st \in [1..Len(g.Nodes) -> Status] :
         graph = WithStatuses(g, st, StatusRunning)
  /\ pc = "sched"
  /\ store = NewSQLiteStorage
  /\ logCalls = NoLogCalls
  /\ IdleExecutor

\* a call of Graph.ScheduleNextBatch(maxNodes)
CallScheduleNextBatch(maxNodes) ==
  /\ pc = "sched"
  /\ LET r == ScheduleNextBatch(graph, maxNodes)
     IN /\ graph' = r.graph
        /\ last' = [op |-> "ScheduleNextBatch", id |-> 0, target |-> "",
                    before |-> graph, err |-> r.err, maxNodes |-> maxNodes,
                    batch |-> r.batch]
  /\ APIUnchanged

NextSchedule == \E maxNodes \in 0..MaxBatchBound : CallScheduleNextBatch(maxNodes)

SpecSchedule == InitSchedule /\ [][NextSchedule]_vars

(***************************************************************************)
(* Validate called directly (as dag/graph_test.go does) on well-formed and *)
(* on malformed graphs                                                      *)
(***************************************************************************)
\* the node lists: none, chains of up to four IDs, a repeated ID, an empty
\* ID (0), and IDs out of order
ValidateIDLists ==
  {<<>>, <<1>>, <<1, 2>>, <<1, 2, 3>>, <<1, 2, 3, 4>>, <<1, 1>>, <<0, 1>>,
   <<2, 1, 3>>}

\* the edges a graph may have, in the order they are listed in Edges; node 5
\* exists in no graph
ValidateEdgeList ==
  <<Edge(1, 2), Edge(2, 3), Edge(3, 4), Edge(1, 3), Edge(2, 1), Edge(1, 1),
    Edge(4, 1), Edge(3, 5)>>

\* the type and the configuration of the first node; the others are sound
ValidateFirstNodes ==
  {[Type |-> "researcher", Config |-> {"query"}],
   [Type |-> "", Config |-> {"query"}],
   [Type |-> "researcher", Config |-> {"query", "steps"}],
   [Type |-> "critic", Config |-> {"batch"}]}

ValidateGraph(ids, first, edges) ==
  Graph([i \in 1..Len(ids) |->
           IF i = 1 THEN Node(ids[i], first.Type, first.Config, 10)
           ELSE Node(ids[i], "researcher", {"query"}, 10)],
        SelectSeq(ValidateEdgeList, LAMBDA e : e \in edges))

InitValidate ==
  /\ \E ids \in ValidateIDLists, first \in ValidateFirstNodes,
        edges \in SUBSET Range(ValidateEdgeList) :
       graph = ValidateGraph(ids, first, edges)
  /\ pc = "validate"
  /\ store = NewSQLiteStorage
  /\ logCalls = NoLogCalls
  /\ IdleExecutor

\* a call of Graph.Validate(), which leaves the graph as it is
CallValidate ==
  /\ pc = "validate"
  /\ last.op = "none"
  /\ last' = [op |-> "Validate", id |-> 0, target |-> "", before |-> graph,
              err |-> Validate(graph)]
  /\ UNCHANGED graph
  /\ APIUnchanged

NextValidate == CallValidate

SpecValidate == InitValidate /\ [][NextValidate]_vars

(***************************************************************************)
(* Signals sent to a graph (as dag/graph_test.go does, and as a running    *)
(* node may): ReceiveSignal applied again and again to graphs that passed  *)
(* Validate and are being executed                                         *)
(***************************************************************************)
\* a graph with the goal of the test in its metadata
WithGoal(g) == [g EXCEPT !.Metadata = [hasGoal |-> TRUE, goal |-> TestGoal]]

\* the graphs signals are sent to: the root of the test; the root with an
\* agent node at depth 1; a chain of three planned nodes; the root with a
\* planned node whose ID is the one the first entity gets under the root;
\* and the root of a graph that has no goal
SignalGraphs ==
  {WithGoal(Graph(<<Node(1, "manager", {}, 1)>>, <<>>)),
   WithGoal(Graph(<<Node(1, "manager", {}, 1),
                    [Node(2, "agent", {}, 1) EXCEPT !.Depth = 1]>>,
                  <<Edge(1, 2)>>)),
   WithGoal(Graph(<<Node(1, "researcher", {"query"}, 1),
                    Node(2, "critic", {"task"}, 1),
                    Node(3, "synthesizer", {"context"}, 1)>>,
                  <<Edge(1, 2), Edge(2, 3)>>)),
   WithGoal(Graph(<<Node(1, "manager", {}, 1),
                    Node(newNodeID(1, Entities[1]), "researcher", {"query"}, 1)>>,
                  <<Edge(1, newNodeID(1, Entities[1]))>>)),
   Graph(<<Node(1, "manager", {}, 1)>>, <<>>)}

\* node statuses an execution can have produced: a node whose parents have
\* all succeeded is waiting, running or done, any other node is blocked
ExecutionStatuses(g, st) ==
  \A i \in 1..Len(g.Nodes) :
    IF \A j \in 1..Len(g.Nodes) :
         g.Nodes[j].ID \in Parents(g, g.Nodes[i].ID) => st[j] = StatusSucceeded
    THEN st[i] \in {StatusPending, StatusRunning, StatusSucceeded}
    ELSE st[i] = StatusBlocked

\* the signals: of a known and of an unknown type, from any node of the
\* graph or from the empty ID (0), which no node has, with or without an
\* entity
Signals(g) ==
  {Signal(type, source, TRUE, entity) :
     type \in {"ENTITY_DISCOVERY", "UNKNOWN_EVENT"},
     source \in NodeIDs(g) \cup {0},
     entity \in {Entities[i] : i \in 1..Len(Entities)}}
  \cup {Signal("ENTITY_DISCOVERY", source, FALSE, <<>>) : source \in NodeIDs(g)}

\* one of the graphs, under execution and persisted when its run began
SignalStart(graphs) ==
  /\ \E g \in graphs :
       /\ Validate(g) = "nil"
       /\ \E st \in [1..Len(g.Nodes) -> Status] :
            /\ ExecutionStatuses(g, st)
            /\ graph = WithStatuses(g, st,
                         IF \A i \in 1..Len(g.Nodes) : st[i] = StatusSucceeded
                         THEN StatusSucceeded ELSE StatusRunning)
       /\ store = persistInitialGraph(NewSQLiteStorage, g)
       /\ logCalls = NoLogCalls
  /\ pc = "signal"
  /\ IdleExecutor

InitSignal == SignalStart(SignalGraphs)

\* the graph signals are sent to while database calls may fail: the root of
\* the test
FaultyGraphs == {WithGoal(Graph(<<Node(1, "manager", {}, 1)>>, <<>>))}

InitSignalFaulty == SignalStart(FaultyGraphs)

\* a call of Graph.ReceiveSignal(sig) during which the database call fault
\* fails
CallReceiveSignal(sig, fault) ==
  /\ pc = "signal"
  /\ LET r == ReceiveSignal(graph, store, sig, fault)
     IN /\ graph' = r.graph
        /\ store' = r.store
        /\ last' = [op |-> "ReceiveSignal", id |-> sig.Source, target |-> "",
                    before |-> graph, err |-> r.err, sig |-> sig,
                    storeBefore |-> store, fault |-> fault]
  /\ UNCHANGED <<logCalls, now, admitted, holding, maxWorkers, retryPolicy, ctxDone, pc, pendingCount,
                 resultChan, chanClosed, nodeResults, ret, wk,
                 circuitBreakers, retryMetrics, checkpointStore, tokens,
                 locks, calls, backoffs, everRunning>>

\* signals received while the storage works
NextSignal == \E sig \in Signals(graph) : CallReceiveSignal(sig, "none")

SpecSignal == InitSignal /\ [][NextSignal]_vars

\* signals received while database calls may fail
NextSignalFaulty ==
  \E sig \in Signals(graph), fault \in StorageFaults :
    CallReceiveSignal(sig, fault)

SpecSignalFaulty == InitSignalFaulty /\ [][NextSignalFaulty]_vars


(***************************************************************************)
(* A client of the storage (as the tests of the storage package are): it   *)
(* builds one graph, writing each mutation to the tables and to the WAL,   *)
(* takes snapshots and recovers the graph.  The variable graph is the      *)
(* state the client has in memory; pc is "saved" once the graph and its    *)
(* node were saved without WAL entries, and "wal" otherwise.               *)
(***************************************************************************)
\* the statuses a graph and a node go through
ClientProgress(current) ==
  IF current = StatusCreated THEN {StatusRunning}
  ELSE IF current = StatusRunning THEN {StatusSucceeded}
  ELSE {}

InitWAL ==
  /\ graph = Graph(<<>>, <<>>)
  /\ store = NewSQLiteStorage
  /\ logCalls = NoLogCalls
  /\ pc = "wal"
  /\ IdleExecutor

WALUnchanged ==
  UNCHANGED <<logCalls, now, admitted, holding, maxWorkers, retryPolicy, ctxDone, pendingCount, resultChan,
              chanClosed, nodeResults, ret, wk, circuitBreakers,
              retryMetrics, checkpointStore, tokens, locks, calls, backoffs,
              everRunning>>

\* SaveGraph and LogMutation(CREATE_GRAPH)
ClientCreateGraph ==
  /\ pc = "wal"
  /\ store.graphs = <<>>
  /\ Len(store.wal) < MaxWALBound
  /\ store' = LogMutation(SaveGraph(store, GraphState(graph)),
                          MutationCreateGraph, [Graph |-> GraphState(graph)])
  /\ last' = [NoCall EXCEPT !.op = "CreateGraph"]
  /\ UNCHANGED <<graph, pc>>
  /\ WALUnchanged

\* SaveGraph and SaveNode with no WAL entry
ClientSaveWithoutLog ==
  /\ pc = "wal"
  /\ store.graphs = <<>>
  /\ graph' = [graph EXCEPT !.Nodes = <<Node(1, "researcher", {"query"}, 1)>>]
  /\ store' = SaveNode(SaveGraph(store, GraphState(graph')),
                       NodeState(graph'.Nodes[1]))
  /\ pc' = "saved"
  /\ last' = [NoCall EXCEPT !.op = "SaveWithoutLog"]
  /\ WALUnchanged

\* SaveNode and LogMutation(ADD_NODE)
ClientAddNode(id) ==
  /\ pc = "wal"
  /\ store.graphs # <<>>
  /\ id = Len(graph.Nodes) + 1
  /\ Len(store.wal) < MaxWALBound
  /\ LET n == Node(id, "researcher", {"query"}, 1)
     IN /\ graph' = [graph EXCEPT !.Nodes = Append(@, n)]
        /\ store' = LogMutation(SaveNode(store, NodeState(n)),
                                MutationAddNode, [Node |-> NodeState(n)])
  /\ last' = [NoCall EXCEPT !.op = "AddNode", !.id = id]
  /\ UNCHANGED pc
  /\ WALUnchanged

\* SaveEdge and LogMutation(ADD_EDGE), for an edge the graph does not have
ClientAddEdge(from, to) ==
  /\ pc = "wal"
  /\ {from, to} \subseteq NodeIDs(graph)
  /\ from < to
  /\ Edge(from, to) \notin Range(graph.Edges)
  /\ Len(store.wal) < MaxWALBound
  /\ graph' = [graph EXCEPT !.Edges = Append(@, Edge(from, to))]
  /\ store' = LogMutation(SaveEdge(store, from, to), MutationAddEdge,
                          [From |-> from, To |-> to])
  /\ last' = [NoCall EXCEPT !.op = "AddEdge", !.id = to]
  /\ UNCHANGED pc
  /\ WALUnchanged

\* UpdateNodeStatus and LogMutation(UPDATE_NODE_STATUS)
ClientUpdateNodeStatus(id, status) ==
  /\ id \in NodeIDs(graph)
  /\ status \in ClientProgress(findNode(graph, id).Status)
  /\ Len(store.wal) < MaxWALBound
  /\ graph' = SetNodeStatus(graph, id, status).graph
  /\ store' = LogMutation(UpdateNodeStatus(store, id, status, 0, ""),
                          MutationUpdateNodeStatus,
                          [NodeID |-> id,
                           OldStatus |-> findNode(graph, id).Status,
                           NewStatus |-> status])
  /\ last' = [NoCall EXCEPT !.op = "UpdateNodeStatus", !.id = id]
  /\ UNCHANGED pc
  /\ WALUnchanged

\* UpdateGraphStatus and LogMutation(UPDATE_GRAPH_STATUS)
ClientUpdateGraphStatus(status) ==
  /\ store.graphs # <<>>
  /\ status \in ClientProgress(graph.Status)
  /\ Len(store.wal) < MaxWALBound
  /\ graph' = [graph EXCEPT !.Status = status]
  /\ store' = LogMutation(UpdateGraphStatus(store, status),
                          MutationUpdateGraphStatus,
                          [OldStatus |-> graph.Status, NewStatus |-> status])
  /\ last' = [NoCall EXCEPT !.op = "UpdateGraphStatus"]
  /\ UNCHANGED pc
  /\ WALUnchanged

\* a call of CreateSnapshot
CallCreateSnapshot ==
  /\ LET r == CreateSnapshot(store)
     IN /\ store' = r.store
        /\ last' = [NoCall EXCEPT !.op = "CreateSnapshot", !.err = r.err]
  /\ UNCHANGED <<graph, pc>>
  /\ WALUnchanged

\* a call of RecoverGraph, after a crash or in the same process
CallRecoverGraph ==
  /\ LET r == RecoverGraph(store)
     IN /\ store' = r.store
        /\ last' = [op |-> "RecoverGraph", id |-> 0, target |-> "",
                    before |-> graph, err |-> r.err, state |-> r.state,
                    applied |-> r.applied, storeBefore |-> store]
  /\ UNCHANGED <<graph, pc>>
  /\ WALUnchanged

NextWAL ==
  \/ ClientCreateGraph
  \/ ClientSaveWithoutLog
  \/ \E id \in 1..2 : ClientAddNode(id)
  \/ \E from, to \in 1..2 : ClientAddEdge(from, to)
  \/ \E id \in 1..2 : \E status \in Status : ClientUpdateNodeStatus(id, status)
  \/ \E status \in Status : ClientUpdateGraphStatus(status)
  \/ CallCreateSnapshot
  \/ CallRecoverGraph

SpecWAL == InitWAL /\ [][NextWAL]_vars


(***************************************************************************)
(* Concurrent logging: client goroutines call LogMutation on one graph at  *)
(* the same time.  A call is two steps, getNextSeqNum (under the mutex of  *)
(* the storage) and AppendWAL (outside it); a crash ends the calls in      *)
(* progress and the next process reloads the sequence number.              *)
(***************************************************************************)
InitLog ==
  /\ graph = Graph(<<>>, <<>>)
  /\ store = NewSQLiteStorage
  /\ logCalls = NoLogCalls
  /\ pc = "log"
  /\ IdleExecutor

LogUnchanged ==
  UNCHANGED <<now, admitted, holding, graph, maxWorkers, retryPolicy, ctxDone, pc,
              pendingCount,
              resultChan, chanClosed, nodeResults, ret, wk, circuitBreakers,
              retryMetrics, checkpointStore, tokens, locks, calls, backoffs,
              everRunning>>

\* LogMutation, first half: seqNum := s.getNextSeqNum(graphID)
LogGetNextSeqNum(c) ==
  /\ pc = "log"
  /\ logCalls[c].pc = "idle"
  /\ store.seqNumbers < MaxWALBound
  /\ LET r == getNextSeqNum(store)
     IN /\ store' = r.store
        /\ logCalls' = [logCalls EXCEPT ![c] = [pc |-> "append",
                                                seqNum |-> r.seq]]
  /\ last' = [NoCall EXCEPT !.op = "getNextSeqNum"]
  /\ LogUnchanged

\* LogMutation, second half: s.AppendWAL(entry)
LogAppendWAL(c) ==
  /\ pc = "log"
  /\ logCalls[c].pc = "append"
  /\ store' = AppendWAL(store,
                        WALEntry(logCalls[c].seqNum, MutationUpdateGraphStatus,
                                 [OldStatus |-> StatusCreated,
                                  NewStatus |-> StatusRunning]))
  /\ logCalls' = [logCalls EXCEPT ![c] = IdleClient]
  /\ last' = [NoCall EXCEPT !.op = "AppendWAL"]
  /\ LogUnchanged

\* the process ends and a new one opens the database: NewSQLiteStorage runs
\* loadSequenceNumbers, and the calls that were in progress are gone
Restart ==
  /\ pc = "log"
  /\ store' = loadSequenceNumbers(store)
  /\ logCalls' = NoLogCalls
  /\ last' = [NoCall EXCEPT !.op = "Restart", !.before = store]
  /\ LogUnchanged

NextLog ==
  \/ \E c \in Clients : LogGetNextSeqNum(c)
  \/ \E c \in Clients : LogAppendWAL(c)
  \/ Restart

SpecLog == InitLog /\ [][NextLog]_vars


(***************************************************************************)
(* The circuit breakers called directly (as the package's tests do, and as *)
(* concurrent requests do): ShouldAllow, RecordSuccess and RecordFailure   *)
(* of PerServiceBreakers, while time passes                                *)
(***************************************************************************)
\* the service types whose breakers are exercised
BreakerTypes == {"researcher"}

\* the clock advances by half of openTimeout or by all of it
ClockSteps == {openTimeout \div 2, openTimeout}

\* the last instant the clock is followed to
MaxClock == MaxTicksBound * (openTimeout \div 2)

InitBreaker ==
  /\ IdleExecutor
  /\ store = NewSQLiteStorage
  /\ logCalls = NoLogCalls
  /\ graph = GraphCatalog[1]
  /\ pc = "start"

BreakerUnchanged ==
  UNCHANGED <<store, logCalls, graph, maxWorkers, retryPolicy, ctxDone, pc,
              pendingCount, resultChan, chanClosed, nodeResults, ret, wk,
              retryMetrics, checkpointStore, tokens, locks, calls, backoffs,
              everRunning, holding>>

\* a call of CircuitBreaker.ShouldAllow on the breaker of type t; a request
\* let through while HalfOpen is a probe whose outcome is still to come
CallShouldAllow(t) ==
  LET cb == circuitBreakers[t]
      a == ShouldAllow(cb, TimeoutElapsed(cb, now))
      probe == a.allow /\ a.cb.state = CircuitHalfOpen
  IN /\ probe => admitted[t] < MaxProbesBound
     /\ circuitBreakers' = [circuitBreakers EXCEPT ![t] = a.cb]
     /\ admitted' = [admitted EXCEPT ![t] = IF probe THEN @ + 1 ELSE @]
     /\ last' = [op |-> "ShouldAllow", id |-> 0, target |-> t,
                 before |-> <<>>, err |-> "nil", allow |-> a.allow]
     /\ UNCHANGED now
     /\ BreakerUnchanged

\* the recorded requests of a breaker that is not Closed are followed up to
\* MaxRecordedBound
RecordEnabled(cb) ==
  cb.state = CircuitClosed \/ cb.failures + cb.successes < MaxRecordedBound

\* a call of PerServiceBreakers.RecordSuccess(t), by a probe if one is out
CallRecordSuccess(t) ==
  /\ RecordEnabled(circuitBreakers[t])
  /\ circuitBreakers' = [circuitBreakers EXCEPT ![t] = RecordSuccess(@)]
  /\ admitted' = [admitted EXCEPT ![t] = IF @ > 0 THEN @ - 1 ELSE @]
  /\ last' = [op |-> "RecordSuccess", id |-> 0, target |-> t,
              before |-> <<>>, err |-> "nil", allow |-> FALSE]
  /\ UNCHANGED now
  /\ BreakerUnchanged

\* a call of PerServiceBreakers.RecordFailure(t), by a probe if one is out
CallRecordFailure(t) ==
  /\ RecordEnabled(circuitBreakers[t])
  /\ circuitBreakers' = [circuitBreakers EXCEPT ![t] = RecordFailure(@, now)]
  /\ admitted' = [admitted EXCEPT ![t] = IF @ > 0 THEN @ - 1 ELSE @]
  /\ last' = [op |-> "RecordFailure", id |-> 0, target |-> t,
              before |-> <<>>, err |-> "nil", allow |-> FALSE]
  /\ UNCHANGED now
  /\ BreakerUnchanged

\* time passes
Tick ==
  /\ \E d \in ClockSteps : now + d <= MaxClock /\ now' = now + d
  /\ last' = [NoCall EXCEPT !.op = "Tick"]
  /\ UNCHANGED <<circuitBreakers, admitted>>
  /\ BreakerUnchanged

NextBreaker ==
  \/ \E t \in BreakerTypes : CallShouldAllow(t)
  \/ \E t \in BreakerTypes : CallRecordSuccess(t)
  \/ \E t \in BreakerTypes : CallRecordFailure(t)
  \/ Tick

SpecBreaker == InitBreaker /\ [][NextBreaker]_vars


(***************************************************************************)
(* The rate limiters called directly (as the package's tests do): Acquire, *)
(* TryAcquire and Release in any order, a Release without an earlier       *)
(* acquisition included                                                    *)
(***************************************************************************)
InitLimiter ==
  /\ IdleExecutor
  /\ store = NewSQLiteStorage
  /\ logCalls = NoLogCalls
  /\ graph = GraphCatalog[1]
  /\ pc = "start"

LimiterUnchanged ==
  UNCHANGED <<store, logCalls, graph, maxWorkers, retryPolicy, ctxDone, pc,
              pendingCount, resultChan, chanClosed, nodeResults, ret, wk,
              circuitBreakers, retryMetrics, checkpointStore, locks, calls,
              backoffs, everRunning, now, admitted, holding>>

\* a call of Acquire(ctx) on the limiter of type t that returns; the context
\* of the caller is done or not
CallAcquire(t) ==
  /\ \E done \in BOOLEAN : \E r \in Acquire(tokens[t], done) :
       /\ tokens' = [tokens EXCEPT ![t] = r.tokens]
       /\ last' = [op |-> "Acquire", id |-> 0, target |-> t,
                   before |-> tokens[t], err |-> r.err]
  /\ LimiterUnchanged

\* a call of TryAcquire on the limiter of type t
CallTryAcquire(t) ==
  /\ \E r \in {TryAcquire(tokens[t])} :
       /\ tokens' = [tokens EXCEPT ![t] = r.tokens]
       /\ last' = [op |-> "TryAcquire", id |-> 0, target |-> t,
                   before |-> tokens[t],
                   err |-> IF r.ok THEN "nil" ELSE "no_token"]
  /\ LimiterUnchanged

\* a call of Release on the limiter of type t
CallRelease(t) ==
  /\ tokens' = [tokens EXCEPT ![t] = Release(@, RateLimit(t))]
  /\ last' = [op |-> "Release", id |-> 0, target |-> t,
              before |-> tokens[t], err |-> "nil"]
  /\ LimiterUnchanged

NextLimiter ==
  \/ \E t \in LimitedTypes : CallAcquire(t)
  \/ \E t \in LimitedTypes : CallTryAcquire(t)
  \/ \E t \in LimitedTypes : CallRelease(t)

SpecLimiter == InitLimiter /\ [][NextLimiter]_vars


(***************************************************************************)
(* The in-memory lock manager called by workers of several executions of   *)
(* one node: AcquireNodeLock, the execution of the node, ReleaseNodeLock,  *)
(* while time passes and the cleanup goroutine runs                        *)
(***************************************************************************)
\* the node IDs the workers contend for
LockIDs == NodeIDs(GraphCatalog[2])

InitLock ==
  /\ IdleExecutor
  /\ store = NewSQLiteStorage
  /\ logCalls = NoLogCalls
  /\ graph = GraphCatalog[2]
  /\ pc = "start"

LockUnchanged ==
  UNCHANGED <<store, logCalls, graph, maxWorkers, retryPolicy, ctxDone, pc,
              pendingCount, resultChan, chanClosed, nodeResults, ret, wk,
              circuitBreakers, retryMetrics, checkpointStore, tokens, calls,
              backoffs, everRunning, admitted>>

\* a worker calls LockManager.AcquireNodeLock(id); with the lock obtained it
\* starts to execute the node
CallAcquireNodeLock(id) ==
  /\ \E r \in {AcquireNodeLock(locks, id, LockTimeout, now)} :
       /\ r.acquired => holding[id] < MaxHoldersBound
       /\ locks' = r.locks
       /\ holding' = [holding EXCEPT ![id] = IF r.acquired THEN @ + 1 ELSE @]
       /\ last' = [op |-> "AcquireNodeLock", id |-> id, target |-> "",
                   before |-> <<>>,
                   err |-> IF r.acquired THEN "nil" ELSE "not_acquired"]
  /\ UNCHANGED now
  /\ LockUnchanged

\* a worker that obtained the lock of id has executed the node and calls
\* ReleaseNodeLock(id)
CallReleaseNodeLock(id) ==
  /\ holding[id] > 0
  /\ \E r \in {ReleaseNodeLock(locks, id)} :
       /\ locks' = r.locks
       /\ last' = [op |-> "ReleaseNodeLock", id |-> id, target |-> "",
                   before |-> <<>>, err |-> r.err]
  /\ holding' = [holding EXCEPT ![id] = @ - 1]
  /\ UNCHANGED now
  /\ LockUnchanged

\* one round of the cleanup goroutine
CleanupExpiredLocks ==
  /\ locks' = cleanupExpiredLocks(locks, now)
  /\ last' = [NoCall EXCEPT !.op = "cleanupExpiredLocks"]
  /\ UNCHANGED <<now, holding>>
  /\ LockUnchanged

\* LockTimeout equals openTimeout: the clock of Tick serves both
NextLock ==
  \/ \E id \in LockIDs : CallAcquireNodeLock(id)
  \/ \E id \in LockIDs : CallReleaseNodeLock(id)
  \/ CleanupExpiredLocks
  \/ Tick

SpecLock == InitLock /\ [][NextLock]_vars


(***************************************************************************)
(* ScheduleNextBatch called on graphs in which a transition to RUNNING can *)
(* fail: two nodes carry one ID (as after the signal of C13), so that      *)
(* SetNodeStatus reaches the first of them                                 *)
(***************************************************************************)
\* node 2 is listed twice, behind a node of higher relevance
RollbackGraphs ==
  {Graph(<<Node(1, "researcher", {"query"}, 10),
           Node(2, "researcher", {"query"}, 5),
           Node(2, "agent", {}, 5)>>, <<>>)}

InitRollback ==
  /\ \E g \in RollbackGraphs :
       \E st \in [1..Len(g.Nodes) -> Status] :
         graph = WithStatuses(g, st, StatusRunning)
  /\ pc = "sched"
  /\ store = NewSQLiteStorage
  /\ logCalls = NoLogCalls
  /\ IdleExecutor

SpecRollback == InitRollback /\ [][NextSchedule]_vars


(***************************************************************************)
(* Properties                                                              *)
(***************************************************************************)
\* the status of node id in the current graph
StatusOf(id) == StatusSnapshot(graph, id)

\* the nodes whose status is st
WithStatus(st) == {id \in NodeIDs(graph) : StatusOf(id) = st}

\* Execute has returned an ExecutionResult (not an error)
ReturnedResult == pc = "done" /\ ret.kind = "result"

\* Execute returned because the context was cancelled
ReturnedCancelled == pc = "done" /\ ret.ErrorMessage = "execution cancelled"

\* the worker of node id succeeded at an attempt other than attempt 0, that is
\* after the node was set to RETRYING
SucceededOnRetry(id) == wk[id].result.Success /\ wk[id].attempt > 0

\* Execute has returned, the run was neither cancelled nor did a worker
\* succeed on a retry
ReturnedUndisturbed ==
  /\ pc = "done"
  /\ ~ReturnedCancelled
  /\ \A id \in NodeIDs(graph) : ~SucceededOnRetry(id)

TransientFailures == {"deadline_exceeded"}
PermanentFailures == {"invalid_argument", "canceled"}

IsTransientOutcome(o) == o \in TransientFailures

\* C2: when Execute returns with every node SUCCEEDED, it returns a result
\* with Success true and SucceededNodes holding exactly the nodes of the
\* graph, whatever the node types
C2_AllSucceededIsSuccess ==
  (pc = "done" /\ WithStatus(StatusSucceeded) = NodeIDs(graph))
    => /\ ret.kind = "result"
       /\ ret.Success
       /\ Range(ret.SucceededNodes) = NodeIDs(graph)

\* C3: a node whose worker fails k times (1 <= k <= MaxAttempts) with a
\* transient error and then succeeds ends SUCCEEDED, Execute returns a result
\* and not an error, and the node's metrics show k+1 attempts and k failures
C3_RetryThenSuccess ==
  \A id \in NodeIDs(graph) :
    LET k == Len(calls[id]) - 1
    IN (/\ pc = "done"
        /\ ~ctxDone
        /\ id \in DOMAIN nodeResults
        /\ wk[id].startAttempt = 0
        /\ k >= 1 /\ k <= retryPolicy.MaxAttempts
        /\ calls[id][k + 1] = "ok"
        /\ \A j \in 1..k : IsTransientOutcome(calls[id][j]))
       => /\ ret.kind = "result"
          /\ StatusOf(id) = StatusSucceeded
          /\ retryMetrics[id].TotalAttempts = k + 1
          /\ retryMetrics[id].FailureCount = k

\* C4: with MaxAttempts = M, no checkpoint and no call refused by the circuit
\* breaker, a node whose every invocation fails with a transient error is
\* invoked exactly M+1 times and is FAILED once its result is reconciled,
\* so when Execute has returned (not cancelled, no success on a retry)
C4_TransientExhaustsRetries ==
  \A id \in NodeIDs(graph) :
    (/\ calls[id] # <<>>
     /\ wk[id].startAttempt = 0
     /\ retryMetrics[id].CircuitBreakerHits = 0
     /\ \A j \in 1..Len(calls[id]) : IsTransientOutcome(calls[id][j]))
    => /\ Len(calls[id]) <= retryPolicy.MaxAttempts + 1
       /\ wk[id].pc \in {"final", "send", "exited", "panicked"}
            => Len(calls[id]) = retryPolicy.MaxAttempts + 1
       /\ (id \in DOMAIN nodeResults \/ ReturnedUndisturbed)
            => /\ Len(calls[id]) = retryPolicy.MaxAttempts + 1
               /\ id \in DOMAIN nodeResults
               /\ ~nodeResults[id].Success
               /\ StatusOf(id) = StatusFailed

\* a node failed MaxRetryBound+1 times in a row with a transient error and
\* is FAILED
C4_Witness ==
  \E id \in NodeIDs(graph) :
    /\ retryPolicy.MaxAttempts = MaxRetryBound
    /\ wk[id].startAttempt = 0
    /\ retryMetrics[id].CircuitBreakerHits = 0
    /\ Len(calls[id]) = MaxRetryBound + 1
    /\ \A j \in 1..Len(calls[id]) : IsTransientOutcome(calls[id][j])
    /\ id \in DOMAIN nodeResults
    /\ StatusOf(id) = StatusFailed

\* C5: a node whose first invocation fails with a permanent error is invoked
\* exactly once, waits for no backoff and is FAILED once its result is
\* reconciled; when Execute has returned (not cancelled, no success on a
\* retry) it returned a result with Success false and the node is FAILED
C5_PermanentNotRetried ==
  \A id \in NodeIDs(graph) :
    (/\ calls[id] # <<>>
     /\ calls[id][1] \in PermanentFailures)
    => /\ Len(calls[id]) = 1
       /\ backoffs[id] = 0
       /\ id \in DOMAIN nodeResults => StatusOf(id) = StatusFailed
       /\ ReturnedResult => ~ret.Success
       /\ ReturnedUndisturbed
            => /\ ret.kind = "result"
               /\ ~ret.Success
               /\ StatusOf(id) = StatusFailed

\* the only invocation of a node failed with InvalidArgument, retries were
\* allowed, and Execute returned a result with the node FAILED
C5_Witness ==
  \E id \in NodeIDs(graph) :
    /\ retryPolicy.MaxAttempts >= 1
    /\ calls[id] = <<"invalid_argument">>
    /\ ReturnedResult
    /\ ~ret.Success
    /\ StatusOf(id) = StatusFailed

\* the graph is two nodes with no edge, hence no path, between them
TwoSiblings == Len(graph.Nodes) = 2 /\ Len(graph.Edges) = 0

C7_ResultPartitionsRunNodes ==
  ReturnedResult
    => /\ Range(ret.SucceededNodes) \cap DOMAIN ret.FailedNodes = {}
       /\ Range(ret.SucceededNodes) \cup DOMAIN ret.FailedNodes = everRunning

\* the nodes that depend, directly or not, on a FAILED node
DependentsOfFailed ==
  UNION {Descendants(graph, f) : f \in WithStatus(StatusFailed)}

\* C8 (safety): the dependents of a FAILED node have never been RUNNING nor
\* handed to a worker and are BLOCKED, also when Execute has returned; what
\* Execute returns then (not cancelled, no success on a retry) is a result
\* with Success false and the deadlock message
C8_DependentsStayBlocked ==
  /\ \A d \in DependentsOfFailed :
       /\ d \notin everRunning
       /\ wk[d].pc = "idle"
       /\ calls[d] = <<>>
       /\ StatusOf(d) = StatusBlocked
  /\ (ReturnedResult /\ DependentsOfFailed # {})
       => ~ret.Success /\ ret.ErrorMessage = DeadlockMessage
  /\ (ReturnedUndisturbed /\ DependentsOfFailed # {}) => ReturnedResult

TransitionTable ==
  {<<StatusCreated, t>> :
     t \in {StatusPending, StatusRunning, StatusBlocked, StatusCancelled}}
  \cup {<<StatusBlocked, t>> : t \in {StatusPending, StatusCancelled}}
  \cup {<<StatusPending, t>> :
          t \in {StatusRunning, StatusFailed, StatusCancelled}}
  \cup {<<StatusRunning, t>> :
          t \in {StatusSucceeded, StatusFailed, StatusRetrying,
                 StatusCancelled}}
  \cup {<<StatusRetrying, t>> :
          t \in {StatusRunning, StatusFailed, StatusCancelled}}
  \cup {<<StatusFailed, t>> : t \in {StatusRetrying, StatusCancelled}}
  \cup {<<StatusCancelled, StatusCreated>>}

\* the status the last call found on the node it names ("" if no such node)
LastNodeStatus == StatusSnapshot(last.before, last.id)

\* the last call named a node of the graph
LastNodeKnown == last.id \in NodeIDs(last.before)

\* the graph as the last call found it, with the status of the named node,
\* respectively of the graph, replaced by the target
LastNodeUpdated ==
  [last.before EXCEPT
     !.Nodes = [i \in 1..Len(last.before.Nodes) |->
                  IF last.before.Nodes[i].ID = last.id
                  THEN [last.before.Nodes[i] EXCEPT !.Status = last.target]
                  ELSE last.before.Nodes[i]]]

LastGraphUpdated == [last.before EXCEPT !.Status = last.target]

\* every node whose status the last call changed moved along the table
LastChangesInTable ==
  last.op # "none" =>
    \A i \in 1..Len(graph.Nodes) :
      graph.Nodes[i].Status # last.before.Nodes[i].Status
        => <<last.before.Nodes[i].Status, graph.Nodes[i].Status>>
             \in TransitionTable

RunChangesInTable ==
  [][\A i \in 1..Len(graph.Nodes) :
       graph'.Nodes[i].Status # graph.Nodes[i].Status
         => <<graph.Nodes[i].Status, graph'.Nodes[i].Status>>
              \in TransitionTable]_vars

PendingIDs(g) ==
  {g.Nodes[i].ID : i \in {j \in 1..Len(g.Nodes) :
                            g.Nodes[j].Status = StatusPending}}

\* the scheduling order: p comes before q when its relevance is higher, or
\* equal with the smaller ID
ComesBefore(g, p, q) ==
  \/ findNode(g, p).RelevanceScore > findNode(g, q).RelevanceScore
  \/ /\ findNode(g, p).RelevanceScore = findNode(g, q).RelevanceScore
     /\ p < q

\* the number of PENDING nodes of g that come before id
PendingRank(g, id) ==
  Cardinality({p \in PendingIDs(g) \ {id} : ComesBefore(g, p, id)})

\* C11: ScheduleNextBatch(maxN), maxN >= 1, returns no error and the first
\* min(maxN, number of PENDING nodes) PENDING nodes in the order relevance
\* descending, then ID ascending; exactly these nodes become RUNNING and
\* nothing else changes (with no PENDING node: empty batch, graph unchanged)
C11_BatchIsTopPending ==
  (last.op = "ScheduleNextBatch" /\ last.maxNodes >= 1)
    => LET g0 == last.before
           n == Min(last.maxNodes, Cardinality(PendingIDs(g0)))
       IN /\ last.err = "nil"
          /\ Len(last.batch) = n
          /\ \A k \in 1..n :
               /\ last.batch[k] \in PendingIDs(g0)
               /\ PendingRank(g0, last.batch[k]) = k - 1
          /\ graph =
               [g0 EXCEPT !.Nodes =
                  [i \in 1..Len(g0.Nodes) |->
                     IF g0.Nodes[i].ID \in Range(last.batch)
                     THEN [g0.Nodes[i] EXCEPT !.Status = StatusRunning]
                     ELSE g0.Nodes[i]]]

\* a batch of one taken from two PENDING nodes of equal relevance that are
\* listed with the larger ID first, while the node of higher relevance is
\* not PENDING: the smaller ID is scheduled
C11_Witness ==
  /\ last.op = "ScheduleNextBatch"
  /\ last.maxNodes = 1
  /\ PendingIDs(last.before) = {1, 3}
  /\ last.before.Nodes[1].ID = 3
  /\ last.batch = <<1>>
  /\ StatusOf(1) = StatusRunning
  /\ StatusOf(3) = StatusPending

\* there is an edge from p to q
HasEdge(g, p, q) == \E i \in 1..Len(g.Edges) : g.Edges[i] = Edge(p, q)

\* the nodes can be ranked so that every edge leads to a higher rank
IsAcyclic(g) ==
  \E rank \in [NodeIDs(g) -> 1..Len(g.Nodes)] :
    \A i \in 1..Len(g.Edges) :
      (g.Edges[i].From \in NodeIDs(g) /\ g.Edges[i].To \in NodeIDs(g))
        => rank[g.Edges[i].From] < rank[g.Edges[i].To]

\* there is a path over k nodes
HasPathOfNodes(g, k) ==
  \E p \in [1..k -> NodeIDs(g)] :
    \A i \in 1..(k - 1) : HasEdge(g, p[i], p[i + 1])

\* the conditions under which Validate is said to accept a graph
WellFormed(g) ==
  /\ Len(g.Nodes) >= 1
  /\ \A i \in 1..Len(g.Nodes) :
       /\ g.Nodes[i].ID # 0
       /\ g.Nodes[i].Type # ""
       /\ g.Nodes[i].Config \cap
            {"steps", "tasks", "pipeline", "subgraph", "batch"} = {}
  /\ Cardinality(NodeIDs(g)) = Len(g.Nodes)
  /\ \A i \in 1..Len(g.Edges) :
       /\ g.Edges[i].From \in NodeIDs(g)
       /\ g.Edges[i].To \in NodeIDs(g)
       /\ g.Edges[i].From # g.Edges[i].To
  /\ IsAcyclic(g)
  /\ ~HasPathOfNodes(g, 4)

IsRelevant(g, sig) ==
  /\ sig.Type = "ENTITY_DISCOVERY"
  /\ sig.Payload.hasEntity
  /\ g.Metadata.hasGoal
  /\ \/ Contains(g.Metadata.goal, sig.Payload.entity)
     \/ Contains(sig.Payload.entity, g.Metadata.goal)

\* the graph has an agent node for the entity of the signal
HasAgentFor(g, sig) ==
  \E i \in 1..Len(g.Nodes) :
    g.Nodes[i].Type = "agent" /\ g.Nodes[i].ConfigEntity = sig.Payload.entity

\* the conditions under which a signal is said to be admitted
Admitted(g, sig) ==
  /\ IsRelevant(g, sig)
  /\ ~HasAgentFor(g, sig)
  /\ sig.Source \in NodeIDs(g)
  /\ findNode(g, sig.Source).Depth < 1

\* C13: an admitted signal appends exactly one node (an agent node for the
\* entity, one level below the source, of relevance 1.0) and exactly one
\* edge from the source to it; at the return the new node is PENDING if
\* the source had succeeded and BLOCKED if not, and a graph that had
\* succeeded is running again
C13_AdmittedSignalAddsOneNode ==
  (last.op = "ReceiveSignal" /\ Admitted(last.before, last.sig)) =>
    LET g == last.before
        src == findNode(g, last.sig.Source)
        new == graph.Nodes[Len(graph.Nodes)]
    IN /\ Len(graph.Nodes) = Len(g.Nodes) + 1
       /\ \A i \in 1..Len(g.Nodes) : graph.Nodes[i].ID = g.Nodes[i].ID
       /\ new.Type = "agent"
       /\ new.ConfigEntity = last.sig.Payload.entity
       /\ new.Depth = src.Depth + 1
       /\ new.RelevanceScore = 1
       /\ graph.Edges = Append(g.Edges, Edge(last.sig.Source, new.ID))
       /\ new.Status = IF src.Status = StatusSucceeded
                       THEN StatusPending ELSE StatusBlocked
       /\ g.Status = StatusSucceeded => graph.Status = StatusRunning

\* C14: a signal that is not admitted leaves the graph as it was; an
\* irrelevant entity is refused as not relevant, a relevant one without an
\* agent node whose source is at depth 1 or deeper is refused for the
\* expansion depth, and a signal of unknown type or for an entity that has
\* an agent node already returns no error
C14_RejectedSignalChangesNothing ==
  last.op = "ReceiveSignal" =>
    LET g == last.before
        sig == last.sig
    IN /\ ~Admitted(g, sig) => graph = g
       /\ sig.Type # "ENTITY_DISCOVERY" => last.err = "nil"
       /\ (sig.Type = "ENTITY_DISCOVERY" /\ sig.Payload.hasEntity
             /\ g.Metadata.hasGoal /\ ~IsRelevant(g, sig))
            => last.err = "not relevant"
       /\ (IsRelevant(g, sig) /\ HasAgentFor(g, sig)) => last.err = "nil"
       /\ (IsRelevant(g, sig) /\ ~HasAgentFor(g, sig)
             /\ sig.Source \in NodeIDs(g)
             /\ findNode(g, sig.Source).Depth >= 1)
            => last.err = "max expansion depth reached"

\* the signal that added the agent node of the first entity under the root
\* has been sent again, and the graph is as it was
C14_Witness ==
  /\ last.op = "ReceiveSignal"
  /\ last.sig = Signal("ENTITY_DISCOVERY", 1, TRUE, Entities[1])
  /\ Len(last.before.Nodes) = 2
  /\ last.before.Nodes[2].ID = newNodeID(1, Entities[1])
  /\ last.before.Nodes[2].Type = "agent"
  /\ last.before.Nodes[2].ConfigEntity = Entities[1]
  /\ last.err = "nil"
  /\ graph = last.before

\* C15: after any sequence of signals the node IDs are unique, every edge
\* joins two existing nodes, the graph is acyclic and no path has more
\* than 3 nodes, so that Validate still accepts the graph
C15_SignalsKeepGraphValid ==
  /\ Cardinality(NodeIDs(graph)) = Len(graph.Nodes)
  /\ \A i \in 1..Len(graph.Edges) :
       graph.Edges[i].From \in NodeIDs(graph)
         /\ graph.Edges[i].To \in NodeIDs(graph)
  /\ IsAcyclic(graph)
  /\ ~HasPathOfNodes(graph, 4)
  /\ Validate(graph) = "nil"

\* the recovered state holds the graph row, the nodes and the edges of the
\* graph g, each edge once
RecoveredIs(state, g) ==
  /\ state.Graph = GraphState(g)
  /\ DOMAIN state.Nodes = NodeIDs(g)
  /\ \A id \in NodeIDs(g) : state.Nodes[id] = NodeState(findNode(g, id))
  /\ Len(state.Edges) = Len(g.Edges)
  /\ \A i \in 1..Len(g.Edges) :
       Cardinality({j \in 1..Len(state.Edges) :
                      state.Edges[j] = EdgeState(g.Edges[i].From,
                                                 g.Edges[i].To)}) = 1

\* C16: when every mutation of the graph was logged, with or without a
\* snapshot taken in between, RecoverGraph returns the state the graph had
\* when the last WAL entry was written: the same nodes with their last
\* logged statuses, the same graph status, and every edge exactly once
C16_RecoveryReturnsLoggedState ==
  (last.op = "RecoverGraph" /\ pc = "wal" /\ last.storeBefore.wal # <<>>) =>
    (last.err = "nil" /\ RecoveredIs(last.state, last.before))

\* the sequence numbers of the WAL rows above the sequence number of the
\* snapshot (of all rows when there is no snapshot), in increasing order
AfterSnapshot(s) ==
  LET above(e) ==
        s.snapshots = <<>> \/ e.SequenceNum > s.snapshots[1].SequenceNum
      rows == OrderBySequenceNum(SelectSeq(s.wal, above))
  IN [i \in 1..Len(rows) |-> rows[i].SequenceNum]

\* C17: RecoverGraph applies exactly the WAL entries whose sequence number
\* is greater than that of the snapshot, each once and in increasing
\* order, and no entry at or below it
C17_ReplaysEntriesAfterSnapshot ==
  (last.op = "RecoverGraph" /\ last.err = "nil") =>
    last.applied = AfterSnapshot(last.storeBefore)

\* C18: for a graph and a node saved without WAL entries whose status
\* changes were logged, RecoverGraph returns no error and the node and the
\* graph have their last logged statuses
C18_SavedGraphRecovers ==
  (/\ last.op = "RecoverGraph"
   /\ pc = "saved"
   /\ \E i \in 1..Len(last.storeBefore.wal) :
        last.storeBefore.wal[i].MutationType = MutationUpdateGraphStatus
   /\ \E i \in 1..Len(last.storeBefore.wal) :
        last.storeBefore.wal[i].MutationType = MutationUpdateNodeStatus) =>
    /\ last.err = "nil"
    /\ last.state.Graph.Status = last.before.Status
    /\ DOMAIN last.state.Nodes = {1}
    /\ last.state.Nodes[1].Status = findNode(last.before, 1).Status

\* C19: the sequence numbers of the WAL entries of the graph are unique and
\* follow the order in which the entries were appended, also across a
\* restart: an entry appended later has a larger sequence number
C19_SequenceFollowsAppendOrder ==
  \A i, j \in 1..Len(store.wal) :
    i < j => store.wal[i].SequenceNum < store.wal[j].SequenceNum

\* the WAL rows that tell the status of a node: its ADD_NODE row and its
\* UPDATE_NODE_STATUS rows
StatusRows(s, id) ==
  {i \in 1..Len(s.wal) :
     \/ /\ s.wal[i].MutationType = MutationAddNode
        /\ s.wal[i].Payload.Node.NodeID = id
     \/ /\ s.wal[i].MutationType = MutationUpdateNodeStatus
        /\ s.wal[i].Payload.NodeID = id}

\* the status of a node according to the WAL, "" when no row tells it
LoggedStatus(s, id) ==
  IF StatusRows(s, id) = {} THEN ""
  ELSE LET i == CHOOSE x \in StatusRows(s, id) :
                  \A y \in StatusRows(s, id) : y <= x
       IN IF s.wal[i].MutationType = MutationAddNode
          THEN s.wal[i].Payload.Node.Status
          ELSE s.wal[i].Payload.NewStatus

\* C20: once the storage is attached and the graph is persisted, the graph
\* in memory holds no status change, node or edge for which no WAL entry
\* has been appended: every node has the status the WAL tells, and every
\* edge has an ADD_EDGE row
C20_MemoryNeverAheadOfWAL ==
  store.wal # <<>> =>
    /\ \A i \in 1..Len(graph.Nodes) :
         LoggedStatus(store, graph.Nodes[i].ID) = graph.Nodes[i].Status
    /\ \A i \in 1..Len(graph.Edges) :
         \E k \in 1..Len(store.wal) :
           /\ store.wal[k].MutationType = MutationAddEdge
           /\ store.wal[k].Payload = [From |-> graph.Edges[i].From,
                                      To |-> graph.Edges[i].To]

(***************************************************************************)
(* C21: with threshold 0.5 and min-requests 10 a breaker is Open as soon   *)
(* as 10 requests are recorded of which at least half are failures,        *)
(* whatever their order.  Stated on the counters: a Closed breaker never   *)
(* holds minRequests or more recorded requests of which the share of       *)
(* failures reaches the threshold.                                         *)
(***************************************************************************)
C21_OpenAtThreshold ==
  \A t \in BreakerTypes :
    LET cb == circuitBreakers[t]
        total == cb.failures + cb.successes
    IN cb.state = CircuitClosed /\ total >= minRequests
         => cb.failures * failureThresholdDen < failureThresholdNum * total

(***************************************************************************)
(* C22: the breaker moves Closed -> Open -> HalfOpen -> Closed or Open.    *)
(* While Open and before openTimeout has passed since it opened,           *)
(* ShouldAllow returns false and changes nothing; the first ShouldAllow    *)
(* after openTimeout returns true and sets HalfOpen; in HalfOpen a         *)
(* recorded failure sets Open with a new opening time; the third           *)
(* consecutive success in HalfOpen sets Closed with the failure and        *)
(* success counters at 0.  The state changes in no other way.              *)
(***************************************************************************)
C22_Transitions ==
  [][\A t \in BreakerTypes :
       LET cb == circuitBreakers[t]
           cb2 == circuitBreakers'[t]
           op == IF last'.target = t THEN last'.op ELSE "none"
       IN /\ op = "ShouldAllow" /\ cb.state = CircuitOpen
               /\ ~TimeoutElapsed(cb, now)
               => ~last'.allow /\ cb2 = cb
          /\ op = "ShouldAllow" /\ cb.state = CircuitOpen
               /\ TimeoutElapsed(cb, now)
               => last'.allow /\ cb2.state = CircuitHalfOpen
          /\ op = "RecordFailure" /\ cb.state = CircuitHalfOpen
               => cb2.state = CircuitOpen /\ cb2.openedAt = now
          /\ op = "RecordSuccess" /\ cb.state = CircuitHalfOpen
               /\ cb.consecutiveSuccesses = halfOpenMaxTests - 1
               => /\ cb2.state = CircuitClosed
                  /\ cb2.failures = 0
                  /\ cb2.successes = 0
          /\ cb2.state # cb.state
               => \/ /\ cb.state = CircuitClosed /\ cb2.state = CircuitOpen
                     /\ op = "RecordFailure"
                  \/ /\ cb.state = CircuitOpen /\ cb2.state = CircuitHalfOpen
                     /\ op = "ShouldAllow" /\ TimeoutElapsed(cb, now)
                  \/ /\ cb.state = CircuitHalfOpen /\ cb2.state = CircuitOpen
                     /\ op = "RecordFailure"
                  \/ /\ cb.state = CircuitHalfOpen
                     /\ cb2.state = CircuitClosed
                     /\ op = "RecordSuccess"
                     /\ cb.consecutiveSuccesses = halfOpenMaxTests - 1
  ]_vars

\* a breaker that opened at or after openTimeout, stayed Open for
\* openTimeout, became HalfOpen and has just been closed by a success
C22_Witness ==
  \E t \in BreakerTypes :
    /\ last.op = "RecordSuccess"
    /\ circuitBreakers[t].state = CircuitClosed
    /\ circuitBreakers[t].failures = 0
    /\ circuitBreakers[t].successes = 0
    /\ circuitBreakers[t].openedAt >= openTimeout
    /\ now >= circuitBreakers[t].openedAt + openTimeout

(***************************************************************************)
(* C23: while a breaker is HalfOpen, ShouldAllow lets through at most      *)
(* halfOpenMaxTests requests whose outcome is not yet recorded, under any  *)
(* interleaving of the callers.                                            *)
(***************************************************************************)
C23_ProbeBudget ==
  \A t \in BreakerTypes :
    circuitBreakers[t].state = CircuitHalfOpen
      => admitted[t] <= halfOpenMaxTests

(***************************************************************************)
(* C24: the breakers lose no counts: GetStats reports exactly the number   *)
(* of RecordSuccess calls made for the type, so every RecordSuccess on a   *)
(* Closed breaker that has recorded no failure raises the reported         *)
(* successes by one (1000 successes give 1000); and a call for one type    *)
(* leaves the breaker of every other type as it was.                       *)
(***************************************************************************)
C24_NoCountLost ==
  [][\A t \in NodeTypes :
       LET cb == circuitBreakers[t]
           cb2 == circuitBreakers'[t]
       IN /\ last'.op = "RecordSuccess" /\ last'.target = t
               /\ cb.state = CircuitClosed /\ cb.failures = 0
               => GetStats(cb2).successes = GetStats(cb).successes + 1
          /\ last'.op \in {"ShouldAllow", "RecordSuccess", "RecordFailure"}
               /\ last'.target # t
               => cb2 = cb
  ]_vars

(***************************************************************************)
(* C25: a rate limiter made with N tokens has between 0 and N tokens free  *)
(* after any sequence of Acquire, TryAcquire and Release, unmatched        *)
(* Release calls included; TryAcquire succeeds exactly when a token is     *)
(* free; a Release while all N tokens are free is discarded.               *)
(***************************************************************************)
C25_TokensWithinCapacity ==
  /\ \A t \in LimitedTypes : tokens[t] >= 0 /\ tokens[t] <= RateLimit(t)
  /\ last.op = "TryAcquire"
       => /\ (last.err = "nil") <=> (last.before > 0)
          /\ tokens[last.target] =
               IF last.before > 0 THEN last.before - 1 ELSE last.before
  /\ last.op = "Release" /\ last.before = RateLimit(last.target)
       => tokens[last.target] = RateLimit(last.target)

\* a Release has been made while every token was free, and the limiter of
\* another type is empty
C25_Witness ==
  /\ last.op = "Release"
  /\ last.before = RateLimit(last.target)
  /\ \E t \in LimitedTypes : tokens[t] = 0

(***************************************************************************)
(* C26: at most one worker at a time executes a node ID: between a         *)
(* successful AcquireNodeLock of one worker and that worker's              *)
(* ReleaseNodeLock no other AcquireNodeLock of the ID succeeds, under      *)
(* every interleaving and also when the TTL of the lock elapses while the  *)
(* first worker is still executing.                                        *)
(***************************************************************************)
C26_OneHolderPerNode ==
  \A id \in LockIDs : holding[id] <= 1

(***************************************************************************)
(* C27: the backoff wait honours cancellation: a worker whose wait was     *)
(* ended by the cancellation of the context makes no further attempt       *)
(* (none is recorded, the node is not set RETRYING again, the remote       *)
(* service is not invoked again) before it sends its failed NodeResult: it *)
(* goes from the wait to the end of the retry loop and to the send.        *)
(***************************************************************************)
C27_CancelledBackoffEndsRetries ==
  \A id \in NodeIDs(graph) :
    wk[id].result.Error = "retry_cancelled"
      => wk[id].pc \in {"loop", "final", "send", "exited", "panicked"}

(***************************************************************************)
(* C28: a node whose type is none of researcher, critic and synthesizer    *)
(* fails at once with a permanent error: its dispatch is attempted exactly *)
(* once, it is never retried, it never waits for a backoff, and it ends    *)
(* FAILED.  Stated for a worker that resumes from no checkpoint.           *)
(***************************************************************************)
C28_UnknownTypeFailsAtOnce ==
  \A id \in NodeIDs(graph) :
    findNode(graph, id).Type \notin LimitedTypes /\ wk[id].startAttempt = 0
      => /\ retryMetrics[id].TotalAttempts <= 1
         /\ backoffs[id] = 0
         /\ StatusOf(id) # StatusRetrying
         /\ id \in DOMAIN nodeResults => StatusOf(id) = StatusFailed

(***************************************************************************)
(* C29: a worker releases what it acquired on every exit path (lock not    *)
(* obtained, rate-limit wait cancelled, success, permanent failure,        *)
(* retries exhausted, circuit breaker open, cancellation during backoff):  *)
(* a worker that has exited holds neither the lock it acquired nor a       *)
(* token, and once every worker goroutine has exited every rate limiter    *)
(* has all its tokens free and no node lock acquired by the run is held.   *)
(***************************************************************************)
WorkerGone(id) == wk[id].pc \in {"exited", "panicked"}

\* the worker of node id obtained the lock of the node
GotLock(id) ==
  /\ wk[id].pc \notin {"idle", "spawned"}
  /\ wk[id].result.Error # "lock_not_acquired"

C29_ReleasedOnEveryExit ==
  /\ \A id \in AllNodeIDs : WorkerGone(id) /\ GotLock(id) => locks[id] = 0
  /\ \A t \in LimitedTypes :
       tokens[t] + Cardinality({id \in NodeIDs(graph) :
                                  /\ findNode(graph, id).Type = t
                                  /\ wk[id].token
                                  /\ ~WorkerGone(id)})
         = RateLimit(t)
  /\ (\A id \in AllNodeIDs : wk[id].pc = "idle" \/ WorkerGone(id))
       => /\ tokens = NewRateLimiterManager
          /\ \A id \in NodeIDs(graph) : GotLock(id) => locks[id] = 0

\* every worker of a run of two nodes has exited: one did not obtain its
\* lock, the other held a lock and a token and sent a failed result
C29_Witness ==
  /\ \A id \in AllNodeIDs : wk[id].pc = "idle" \/ WorkerGone(id)
  /\ \E id \in NodeIDs(graph) :
       /\ wk[id].pc = "exited"
       /\ wk[id].result.Error = "lock_not_acquired"
  /\ \E id \in NodeIDs(graph) :
       /\ wk[id].pc = "exited"
       /\ GotLock(id)
       /\ calls[id] # <<>>
       /\ ~wk[id].result.Success
       /\ backoffs[id] > 0

(***************************************************************************)
(* C30: the number of workers in flight (spawned, result not yet           *)
(* reconciled by Execute) never exceeds maxWorkers and is what             *)
(* pendingCount counts; and a node is handed to at most one worker per     *)
(* run: a worker is spawned only for a node no worker was spawned for.     *)
(***************************************************************************)
WorkersInFlight ==
  {id \in AllNodeIDs : wk[id].pc # "idle" /\ id \notin DOMAIN nodeResults}

C30_BoundedWorkers ==
  /\ [](/\ Cardinality(WorkersInFlight) <= maxWorkers
        /\ pendingCount = Cardinality(WorkersInFlight))
  /\ [][\A id \in AllNodeIDs :
          wk'[id].pc = "spawned" /\ wk[id].pc # "spawned"
            => /\ wk[id].pc = "idle"
               /\ id \notin DOMAIN nodeResults
               /\ id \notin everRunning]_vars

\* maxWorkers nodes are in flight at once, in a run of MaxWorkersBound
\* workers on a graph that has more nodes than that
C30_Witness ==
  /\ maxWorkers = MaxWorkersBound
  /\ Cardinality(WorkersInFlight) = maxWorkers
  /\ Len(graph.Nodes) > maxWorkers
  /\ \E id \in NodeIDs(graph) : id \in DOMAIN nodeResults

(***************************************************************************)
(* C31: all graph-state mutations happen on the driver: no step of a       *)
(* worker goroutine changes the shared graph (no node's Status, LastError  *)
(* or RetryCount).                                                         *)
(***************************************************************************)
\* the step is taken by a worker goroutine that was already spawned
WorkerStep ==
  \E id \in AllNodeIDs : wk[id].pc # "idle" /\ wk'[id] # wk[id]

C31_WorkersNeverWriteGraph ==
  [][WorkerStep => graph' = graph]_vars

(***************************************************************************)
(* C32: Execute validates before it persists: when Execute has returned    *)
(* the validation error, nothing has been written to storage (no graph,    *)
(* node or edge row and no WAL entry).                                     *)
(***************************************************************************)
C32_ValidatesBeforePersisting ==
  ret = ExecutionError("graph validation failed")
    => /\ store.wal = <<>>
       /\ store.graphs = <<>>
       /\ store.nodes = <<>>
       /\ store.edges = <<>>

C34_CountersResetOnTransition ==
  [][\A t \in BreakerTypes :
       \/ /\ circuitBreakers[t].state = CircuitClosed
          /\ circuitBreakers'[t].state = CircuitOpen
       \/ /\ circuitBreakers[t].state = CircuitHalfOpen
          /\ circuitBreakers'[t].state = CircuitClosed
       => /\ GetStats(circuitBreakers'[t]).failures = 0
          /\ GetStats(circuitBreakers'[t]).successes = 0]_vars

(***************************************************************************)
(* C35: EvaluateReadiness is idempotent: a call that directly follows      *)
(* another call of EvaluateReadiness, no status having been changed in     *)
(* between, changes no node status (and returns what the first returned).  *)
(***************************************************************************)
C35_EvaluateReadinessIdempotent ==
  [][last.op = "EvaluateReadiness" /\ last'.op = "EvaluateReadiness"
       => /\ graph' = graph
          /\ last'.err = last.err]_vars

\* a call of EvaluateReadiness that found a node still to be evaluated (it
\* is BLOCKED behind a parent that has not succeeded) and changed nothing
C35_Witness ==
  /\ last.op = "EvaluateReadiness"
  /\ last.err = "nil"
  /\ last.before = graph
  /\ \E i \in 1..Len(graph.Nodes) :
       /\ graph.Nodes[i].Status = StatusBlocked
       /\ Parents(graph, graph.Nodes[i].ID) # {}

(***************************************************************************)
(* C36: a worker that starts from a stored checkpoint with AttemptNumber a *)
(* (0 <= a <= MaxAttempts) invokes the remote worker at most               *)
(* MaxAttempts - a + 1 times; when attempt k fails with a transient error  *)
(* and retries are left, a checkpoint with AttemptNumber k + 1 is saved;   *)
(* when the node succeeds its checkpoint is deleted, so that a Load for    *)
(* the node returns AttemptNumber 0 from then on.                          *)
(***************************************************************************)
C36_CheckpointedAttempts ==
  /\ [](\A id \in AllNodeIDs :
          /\ wk[id].startAttempt <= retryPolicy.MaxAttempts
               => Len(calls[id])
                    <= retryPolicy.MaxAttempts - wk[id].startAttempt + 1
          /\ wk[id].result # NoResult /\ wk[id].result.Success
               => Load(checkpointStore, id) = 0)
  /\ [][\A id \in AllNodeIDs :
          wk[id].pc = "rpc" /\ wk'[id].pc # "rpc"
            => /\ (/\ ~wk'[id].result.Success
                   /\ IsRetryable(wk'[id].result.Error)
                   /\ wk[id].attempt < retryPolicy.MaxAttempts)
                 => Load(checkpointStore', id) = wk[id].attempt + 1
               /\ wk'[id].result.Success
                 => Load(checkpointStore', id) = 0]_vars

\* node 1 started from a checkpoint with AttemptNumber 1, failed transiently
\* once, then succeeded, and its result has been collected
C36_Witness ==
  /\ retryPolicy.MaxAttempts = MaxRetryBound
  /\ wk[1].startAttempt = 1
  /\ calls[1] = <<"deadline_exceeded", "ok">>
  /\ 1 \in DOMAIN nodeResults
  /\ Load(checkpointStore, 1) = 0

(***************************************************************************)
(* C37: no worker sends on the result channel after Execute has closed it: *)
(* when Execute has returned with workers still in flight, none of them    *)
(* performs "resultChan <- result" on the closed channel.                  *)
(***************************************************************************)
C37_NoSendOnClosedChannel ==
  [][\A id \in AllNodeIDs :
       wk[id].pc = "send" /\ wk'[id].pc # "send" => ~chanClosed]_vars

(***************************************************************************)
(* C38: Execute terminates: on a validated graph, when every remote call   *)
(* returns and the context is never cancelled, Execute returns under fair  *)
(* scheduling of the driver and the workers, and when it returns no worker *)
(* of the run is still in flight.                                          *)
(***************************************************************************)
C38_ExecuteTerminates ==
  /\ <>(ctxDone \/ pc = "done")
  /\ [](pc = "done" /\ ~ctxDone => WorkersInFlight = {})

(***************************************************************************)
(* C39: RecoverGraph is repeatable: a call that directly follows another   *)
(* call of RecoverGraph, with no mutation logged and no snapshot created   *)
(* in between, returns the state the first call returned (the same graph   *)
(* status, nodes and edges) and the same error.                            *)
(***************************************************************************)
C39_RecoveryRepeatable ==
  [][last.op = "RecoverGraph" /\ last'.op = "RecoverGraph"
       => /\ last'.state = last.state
          /\ last'.err = last.err]_vars

(***************************************************************************)
(* C40: ReceiveSignal is atomic with respect to errors: whenever it        *)
(* returns an error, also when saving the new node or the new edge to the  *)
(* storage failed, the graph in memory has the nodes and the edges it had  *)
(* before the call (no node appended without its edge, no node left in     *)
(* CREATED without a readiness evaluation).                                *)
(***************************************************************************)
C40_FailedSignalChangesNothing ==
  last.op = "ReceiveSignal" /\ last.err # "nil"
    => /\ graph.Nodes = last.before.Nodes
       /\ graph.Edges = last.before.Edges

====
